---- MODULE Spec2Model ----
(***************************************************************************)
(* The receipt log of the ODIN gateway (app/receipts.py, app/utils.py):    *)
(* the file-backed ReceiptStore, the FirestoreReceiptStore, the            *)
(* CachingReceiptStore decorator and load_receipt_store.                   *)
(*                                                                         *)
(* A receipt (a Python dict) is a function from field names to values.     *)
(* A line of the log is the JSON text of a receipt, modelled as the        *)
(* sequence of its <<key, value>> members.                                 *)
(***************************************************************************)
EXTENDS Integers, Sequences, FiniteSets, TLC

\* ------------------------------------------------------------------ bounds
MaxAdds == 3        \* add calls on a bare store in one behaviour
MaxCachedAdds == 2  \* add calls through the caching decorator
MaxThreadAdds == 2  \* add calls made by the request threads
MaxTime == 2        \* the clock runs over 0..MaxTime (seconds)
MaxDirtyLines == 3  \* lines of a log file found with foreign content
MaxDirtyAdds == 1   \* add calls on such a log
MaxRaceAdds == 1    \* add calls made through the decorator by the threads
MaxReceipts == 3    \* receipts the gateway appends in one behaviour
IdWindow == 2       \* stands for the 500 of deque(maxlen=500)

\* ------------------------------------------------------------------ values
\* Python None / JSON null, for the two hash-valued fields.
None == <<>>

\* A receipt_hash / prev_receipt_hash a caller may put in its input.
Forged == <<"forged">>

\* Correlation keys; "" is the falsy key (bool("") is False in Python).
TraceIds == {"", "a"}

\* Caller-supplied ISO-8601 timestamps: second t, with a UTC offset
\* ("...:0t+00:00", aware) or without one ("...:0t", naive).
Aware(t) == [aware |-> TRUE, t |-> t]
Naive(t) == [aware |-> FALSE, t |-> t]

\* A ts that is no ISO-8601 text ("never"): fromisoformat raises ValueError
\* on it, and as a str it sorts after every timestamp.
NotIso == [aware |-> FALSE, t |-> MaxTime + 1]

\* The records a caller passes that lack fields: no ts, no hop, no
\* trace_id, no field at all, neither hop nor a readable ts; and a whole one.
PartialInputs ==
  { [trace_id |-> "a", hop |-> 1],
    [trace_id |-> "a", ts |-> Aware(0)],
    [hop |-> 0, ts |-> Aware(0)],
    [k \in {} |-> 0],
    [trace_id |-> "a", ts |-> NotIso],
    [trace_id |-> "a", hop |-> 1, ts |-> Aware(MaxTime)] }

\* The records the callers pass to add on the file store, shaped like
\* main.py's receipt: two records of trace "a" at hop 0 stamped oldest and
\* newest, one at hop 1 stamped oldest, one of another trace, one with a
\* naive timestamp, and one that carries caller-supplied hash fields.
Inputs ==
  { [trace_id |-> "a", hop |-> 0, ts |-> Aware(0)],
    [trace_id |-> "a", hop |-> 0, ts |-> Aware(MaxTime)],
    [trace_id |-> "a", hop |-> 1, ts |-> Aware(0)],
    [trace_id |-> "", hop |-> 0, ts |-> Aware(MaxTime)],
    [trace_id |-> "a", hop |-> 0, ts |-> Naive(0)],
    [trace_id |-> "a", hop |-> 0, ts |-> Aware(0),
     receipt_hash |-> Forged, prev_receipt_hash |-> Forged] }

\* The records the callers pass to add on the Firestore store: two hops of
\* one trace stamped newest first, and a record of another trace that
\* carries caller-supplied hash fields.
RemoteInputs ==
  { [trace_id |-> "a", hop |-> 1, ts |-> Aware(MaxTime)],
    [trace_id |-> "a", hop |-> 0, ts |-> Aware(0)],
    [trace_id |-> "", hop |-> 0, ts |-> Aware(0),
     receipt_hash |-> Forged, prev_receipt_hash |-> Forged] }

\* Configuration read once at construction.
RetentionChoices == {0, 1}     \* ODIN_RETENTION_MAX_AGE_SECONDS
\* ODIN_RETENTION_MAX_AGE_SECONDS as the environment holds it: a string,
\* "" when the variable is unset or empty.
RetentionEnv == {"", "-1", "0", "1"}
TtlChoices == {-1, 0, 1}       \* ODIN_RECEIPT_CACHE_TTL_SECONDS
SizeChoices == {0, 1}          \* ODIN_RECEIPT_CACHE_SIZE

\* ------------------------------------------------------------ app/utils.py
\* Field names in lexicographic order (json.dumps(sort_keys=True)).
SortedKeys ==
  <<"allowed", "hop", "policy", "prev_receipt_hash", "reason", "receipt_hash",
    "trace_id", "ts">>

\* dict.get(k, default)
Get(obj, k, default) == IF k \in DOMAIN obj THEN obj[k] ELSE default

\* {k: v for k, v in obj.items() if k != field}
Without(obj, field) == [k \in DOMAIN obj \ {field} |-> obj[k]]

\* d = dict(obj); d[field] = value
With(obj, field, value) ==
  [k \in DOMAIN obj \cup {field} |-> IF k = field THEN value ELSE obj[k]]

\* canonical_json: the members of obj in sorted key order, nothing else.
canonical_json(obj) ==
  LET ks == SelectSeq(SortedKeys, LAMBDA k : k \in DOMAIN obj)
  IN  [i \in 1..Len(ks) |-> <<ks[i], obj[ks[i]]>>]

\* sha256_cid: a prefixed digest; SHA-256 is modelled as collision-free,
\* so the digest of a byte string is the byte string itself.
sha256_cid(data) == <<"sha256", data>>

\* A dict with its insertion order is the sequence of its <<key, value>>
\* items; a value is a scalar or a nested dict.
Scalar(x) == [kind |-> "scalar", atom |-> x, items |-> <<>>]
Dict(items) == [kind |-> "dict", atom |-> "", items |-> items]

\* Mutant of canonical_json_ordered: only the top level is sorted.
canonical_json_top_level(items) ==
  LET ks == SelectSeq(SortedKeys,
                      LAMBDA k : \E i \in DOMAIN items : items[i][1] = k)
      val(k) == items[CHOOSE i \in DOMAIN items : items[i][1] = k][2]
  IN  [i \in 1..Len(ks) |-> <<ks[i], val(ks[i])>>]

\* canonical_json on a dict with its insertion order: json.dumps with
\* sort_keys=True writes the members in sorted key order at every level.
RECURSIVE canonical_json_ordered(_)
canonical_json_ordered(items) ==
  LET ks == SelectSeq(SortedKeys,
                      LAMBDA k : \E i \in DOMAIN items : items[i][1] = k)
      val(k) == items[CHOOSE i \in DOMAIN items : items[i][1] = k][2]
      dump(v) == IF v.kind = "dict"
                   THEN Dict(canonical_json_ordered(v.items))
                   ELSE v
  IN  [i \in 1..Len(ks) |-> <<ks[i], dump(val(ks[i]))>>]

\* --------------------------------------------------------- JSON text lines
\* json.dumps(r2, ensure_ascii=False): the members in the dict's insertion
\* order: the caller's fields, then the fields add assigns when the caller
\* did not supply them.
DumpOrder ==
  <<"trace_id", "hop", "ts", "policy", "receipt_hash", "prev_receipt_hash">>

json_dumps(obj) ==
  LET ks == SelectSeq(DumpOrder, LAMBDA k : k \in DOMAIN obj)
  IN  [i \in 1..Len(ks) |-> <<ks[i], obj[ks[i]]>>]

\* json.loads(ln): the mapping the members of the text describe.
json_loads(ln) ==
  [k \in {ln[i][1] : i \in DOMAIN ln} |->
      ln[CHOOSE i \in DOMAIN ln : ln[i][1] = k][2]]

\* What a non-blank line of the log can hold besides a receipt: text that
\* json.loads rejects (JSONDecodeError), and JSON that is not an object (a
\* list, a number, null), on which .get raises AttributeError.
BadJson == << <<"#", "not json">> >>
NotObject == << <<"#", "not an object">> >>

\* json.loads(ln) raises.
JsonError(ln) == ln[1][1] = "#" /\ ln[1][2] = "not json"

\* json.loads(ln) returns a value that has no .get.
NoGet(ln) == ln[1][1] = "#" /\ ln[1][2] = "not an object"

\* json.loads(ln).get(...) returns.
IsDict(ln) == ~JsonError(ln) /\ ~NoGet(ln)

\* ---------------------------------------------------------------- sorting
\* The order of two timestamp strings as Python compares str: the naive
\* text of second t is a proper prefix of the aware text of second t.
StrKey(ts) == 2 * ts.t + (IF ts.aware THEN 1 ELSE 0)

\* key=lambda x: (x.get("hop", 0), x.get("ts", ""))   (tuple comparison)
SortHop(x) == Get(x, "hop", 0)
SortTs(x) == IF "ts" \in DOMAIN x THEN StrKey(x.ts) ELSE -1

\* Mutant of HopTsLt: the key is (ts, hop).
TsHopLt(x, y) ==
  \/ SortTs(x) < SortTs(y)
  \/ SortTs(x) = SortTs(y) /\ SortHop(x) < SortHop(y)

HopTsLt(x, y) ==
  \/ SortHop(x) < SortHop(y)
  \/ SortHop(x) = SortHop(y) /\ SortTs(x) < SortTs(y)

\* out.sort(key=...): Python's sort is stable, so an element goes after the
\* elements with a smaller key and after the earlier ones with an equal key.
sort_by_hop_ts(s) ==
  LET n == Len(s)
      rank(i) == 1 + Cardinality({j \in 1..n :
                        HopTsLt(s[j], s[i]) \/ (~HopTsLt(s[i], s[j]) /\ j < i)})
  IN  [p \in 1..n |-> s[CHOOSE i \in 1..n : rank(i) = p]]

\* ------------------------------------------------------------------- state
VARIABLES
  env,              \* the environment load_receipt_store reads
  backend,          \* "file" | "firestore": the store load_receipt_store built
  cache_enabled,    \* the store is wrapped in a CachingReceiptStore
  max_age_seconds,  \* ReceiptStore.max_age_seconds
  ttl_seconds,      \* CachingReceiptStore.ttl_seconds
  max_size,         \* CachingReceiptStore.max_size
  now,              \* datetime.now(UTC), in seconds
  file,             \* the lines of the log file, in order
  docs,             \* the documents of the collection, in document-id order
  chains,           \* CachingReceiptStore._chains: trace_id -> list
  last_refresh,     \* CachingReceiptStore._last_refresh, as the sequence of
                    \* its <<trace_id, time>> items in insertion order
  total_cached,     \* CachingReceiptStore._total_cached
  added,            \* history: what each add call got and returned, in order
  last,             \* history: the most recent call and what it returned
  thr,              \* the request threads: the position and locals of each
  seen,             \* history: the most recent read of the log by a thread
  mappings,         \* the insertion-ordered mappings handed to the encoder
  cids,             \* the content addresses computed for them
  billing_env,      \* ODIN_BILLING_TIER and FREE_TIER_MONTHLY_RECEIPT_LIMIT
  month,            \* utc_now(), as the index of its month in MonthKeys
  usage_cache,      \* billing._usage_cache: project_id -> count
  usage_cache_month,   \* billing._usage_cache_month
  subscription_cache,  \* billing._subscription_cache: project_id -> state
  processed_event_ids, \* billing._processed_event_ids, oldest first
  response,         \* history: the most recent gateway request and its answer
  issued,           \* history: receipts appended by the gateway, per month
  handled           \* history: the ids of the webhook events handled so far

vars == <<env, backend, cache_enabled, max_age_seconds, ttl_seconds, max_size,
          now, file, docs, chains, last_refresh, total_cached, added, last,
          thr, seen, mappings, cids, billing_env, month, usage_cache,
          usage_cache_month, subscription_cache, processed_event_ids,
          response, issued, handled>>

config == <<env, backend, cache_enabled, max_age_seconds, ttl_seconds, max_size>>
cache == <<chains, last_refresh, total_cached>>
encoder == <<mappings, cids>>
billing == <<billing_env, month, usage_cache, usage_cache_month,
             subscription_cache, processed_event_ids, response, issued,
             handled>>

NoCall == [op |-> "none", key |-> "", result |-> <<>>, fetched |-> FALSE,
           repeat |-> FALSE, signals |-> {}]

\* ------------------------------------------------------------ ReceiptStore
\* _read_lines: the non-blank lines of the file ([] when it does not exist).
\* The value of `file` when no file exists at the path. It is no list of
\* lines: open(path) raises FileNotFoundError.
NoFile == << << <<"#", "no such file">> >> >>

\* Mutant of read_lines: no FileNotFoundError branch.
read_lines_unguarded == SelectSeq(file, LAMBDA ln : ln # <<>>)

\* _read_lines: the non-blank lines, [] when there is no file.
read_lines ==
  IF file = NoFile THEN <<>> ELSE SelectSeq(file, LAMBDA ln : ln # <<>>)

\* int(s) for the decimal strings of RetentionEnv.
Decimal == ("-1" :> -1) @@ ("0" :> 0) @@ ("1" :> 1)

\* ODIN_RETENTION_MAX_AGE_SECONDS holding text that int() rejects as well.
RetentionTexts == RetentionEnv \cup {"1h", " "}

\* The max_age_seconds argument of the constructor: None, or an int.
NoArg == [given |-> FALSE, value |-> 0]
Arg(n) == [given |-> TRUE, value |-> n]
RetentionArgs == {NoArg, Arg(0), Arg(2)}

\* Mutant of ReceiptStore_new: the argument goes before the environment.
ReceiptStore_new_arg_first(env_val, arg) ==
  IF arg.given /\ arg.value # 0 THEN arg.value
  ELSE IF env_val = "" THEN 0
  ELSE IF env_val \in DOMAIN Decimal THEN Decimal[env_val]
  ELSE 0

\* ReceiptStore.__init__: max_age_seconds =
\* int(env_val or (max_age_seconds or 0)), and 0 when that raises. An unset
\* or empty variable is falsy; text that int() rejects raises ValueError.
ReceiptStore_new(env_val, arg) ==
  IF env_val = ""
    THEN (IF arg.given /\ arg.value # 0 THEN arg.value ELSE 0)
  ELSE IF env_val \in DOMAIN Decimal THEN Decimal[env_val]
  ELSE 0

\* ReceiptStore.__init__ called without arguments, as load_receipt_store
\* calls it: max_age_seconds = int(env_val or 0).
ReceiptStore_init(env_val) == ReceiptStore_new(env_val, NoArg)

\* Mutant of KeepsLine: the except branch drops the line.
KeepsLine_only_dated(ln, cutoff) ==
  LET obj == json_loads(ln)
  IN  IF IsDict(ln) /\ "ts" \in DOMAIN obj /\ obj.ts # NotIso /\ obj.ts.aware
        THEN obj.ts.t >= cutoff
        ELSE FALSE

\* fromisoformat(obj.get("ts")) >= cutoff, inside try/except: an aware
\* timestamp is compared; comparing a naive one with the aware cutoff
\* raises TypeError, and the except branch keeps the line, as it does when
\* json.loads or .get raises, when ts is missing (fromisoformat(None)
\* raises TypeError) and when ts is no ISO-8601 text (ValueError).
KeepsLine(ln, cutoff) ==
  LET obj == json_loads(ln)
  IN  IF IsDict(ln) /\ "ts" \in DOMAIN obj /\ obj.ts # NotIso /\ obj.ts.aware
        THEN obj.ts.t >= cutoff
        ELSE TRUE

\* Mutant of prune_by_age: no "retention disabled" branch.
prune_by_age_always(lines) ==
  SelectSeq(lines, LAMBDA ln : KeepsLine(ln, now - max_age_seconds))

prune_by_age(lines) ==
  IF max_age_seconds = 0 \/ max_age_seconds <= 0
    THEN lines
    ELSE SelectSeq(lines, LAMBDA ln : KeepsLine(ln, now - max_age_seconds))

\* Mutant of stamp: the digest also covers the receipt_hash of the input.
stamp_over_all_fields(r, prev_hash) ==
  LET r2 == With(r, "prev_receipt_hash", prev_hash)
      rh == sha256_cid(canonical_json(r2))
  IN  With(r2, "receipt_hash", rh)

\* r2 = dict(r); r2["prev_receipt_hash"] = prev_hash;
\* r2["receipt_hash"] = sha256_cid(canonical_json(r2 without receipt_hash))
stamp(r, prev_hash) ==
  LET r2 == With(r, "prev_receipt_hash", prev_hash)
      rh == sha256_cid(canonical_json(Without(r2, "receipt_hash")))
  IN  With(r2, "receipt_hash", rh)

\* Mutant of last_hash: links to the first line of the log (lines[0]).
first_line_hash(lines) ==
  IF lines # <<>>
    THEN Get(json_loads(lines[1]), "receipt_hash", None)
    ELSE None

\* prev_hash = json.loads(lines[-1]).get("receipt_hash") if lines else None
last_hash(lines) ==
  IF lines # <<>>
    THEN Get(json_loads(lines[Len(lines)]), "receipt_hash", None)
    ELSE None

\* json.loads(lines[-1]).get("receipt_hash") is outside any try: it raises
\* when the last line is not a JSON object.
last_hash_raises(lines) == lines # <<>> /\ ~IsDict(lines[Len(lines)])

\* Mutant of ReceiptStore_add: links to the last line read, then prunes.
ReceiptStore_add_link_first(r, read) ==
  LET lines == prune_by_age(read)
      r2 == stamp(r, last_hash(read))
  IN  IF last_hash_raises(read)
        THEN [raised |-> TRUE, ret |-> <<>>, lines |-> <<>>]
        ELSE [raised |-> FALSE, ret |-> r2, lines |-> Append(lines, json_dumps(r2))]

\* Mutant of ReceiptStore_add: the link is taken before pruning.
ReceiptStore_add_link_unpruned(r, read) ==
  LET lines == prune_by_age(read)
      r2 == stamp(r, last_hash(read))
  IN  IF last_hash_raises(read)
        THEN [raised |-> TRUE, ret |-> <<>>, lines |-> <<>>]
        ELSE [raised |-> FALSE, ret |-> r2, lines |-> Append(lines, json_dumps(r2))]

\* Mutant of ReceiptStore_add: the new line is written first.
ReceiptStore_add_prepend(r, read) ==
  LET lines == prune_by_age(read)
      r2 == stamp(r, last_hash(lines))
  IN  IF last_hash_raises(lines)
        THEN [raised |-> TRUE, ret |-> <<>>, lines |-> <<>>]
        ELSE [raised |-> FALSE, ret |-> r2, lines |-> <<json_dumps(r2)>> \o lines]

\* ReceiptStore.add on the log contents it read: whether it raises (before
\* it writes anything), else the record it returns and the lines it writes
\* back.
ReceiptStore_add(r, read) ==
  LET lines == prune_by_age(read)
      r2 == stamp(r, last_hash(lines))
  IN  IF last_hash_raises(lines)
        THEN [raised |-> TRUE, ret |-> <<>>, lines |-> <<>>]
        ELSE [raised |-> FALSE, ret |-> r2, lines |-> Append(lines, json_dumps(r2))]

\* Mutant of ReceiptStore_chain: the loop ends at the first line that does
\* not load (break for continue).
ReceiptStore_chain_until_bad(trace_id, read) ==
  LET bad == {i \in DOMAIN read : ~IsDict(read[i])}
      upto == IF bad = {} THEN Len(read)
              ELSE (CHOOSE i \in bad : \A j \in bad : i <= j) - 1
      objs == [i \in 1..upto |-> json_loads(read[i])]
      out == SelectSeq(objs, LAMBDA obj :
                 "trace_id" \in DOMAIN obj /\ obj.trace_id = trace_id)
  IN  sort_by_hop_ts(out)

\* ReceiptStore.chain on the log contents it read: a line on which
\* json.loads or .get raises is skipped (except: continue).
ReceiptStore_chain(trace_id, read) ==
  LET loaded == SelectSeq(read, IsDict)
      objs == [i \in DOMAIN loaded |-> json_loads(loaded[i])]
      out == SelectSeq(objs, LAMBDA obj :
                 "trace_id" \in DOMAIN obj /\ obj.trace_id = trace_id)
  IN  sort_by_hop_ts(out)

\* --------------------------------------------------- FirestoreReceiptStore
\* The documents order_by("ts", DESCENDING).limit(1) may return: one with
\* the greatest ts string (any of them when several tie).
LatestDocs ==
  {i \in DOMAIN docs : \A j \in DOMAIN docs : SortTs(docs[j]) <= SortTs(docs[i])}

\* Mutant of latest_receipt_hash: no except branch, the failed query still
\* answers.
latest_receipt_hash_no_except(query_ok) ==
  IF docs = <<>>
    THEN {None}
    ELSE {Get(docs[i], "receipt_hash", None) : i \in LatestDocs}

\* _latest_receipt_hash: the values it can return. The query can raise
\* (the except branch returns None); with no document it returns None.
latest_receipt_hash(query_ok) ==
  IF ~query_ok \/ docs = <<>>
    THEN {None}
    ELSE {Get(docs[i], "receipt_hash", None) : i \in LatestDocs}

\* Mutant of FirestoreReceiptStore_add: the link is read again, inside the
\* write.
FirestoreReceiptStore_add_relinked(r, prev_hash) ==
  stamp(r, IF docs = <<>> THEN None
           ELSE Get(docs[CHOOSE i \in LatestDocs : TRUE], "receipt_hash", None))

\* FirestoreReceiptStore.add: the record it builds from the prev hash read.
FirestoreReceiptStore_add(r, prev_hash) == stamp(r, prev_hash)

\* collection.add(r2): a new document under an auto-generated id, which
\* falls anywhere in document-id order.
InsertAt(s, i, x) == SubSeq(s, 1, i - 1) \o <<x>> \o SubSeq(s, i, Len(s))

\* Mutant of FirestoreReceiptStore_chain: no except branch, the failed query
\* still answers.
FirestoreReceiptStore_chain_no_except(trace_id, query_ok) ==
  sort_by_hop_ts(SelectSeq(docs, LAMBDA d :
                   "trace_id" \in DOMAIN d /\ d.trace_id = trace_id))

\* FirestoreReceiptStore.chain: [] when the query raises.
FirestoreReceiptStore_chain(trace_id, query_ok) ==
  LET out == IF query_ok
               THEN SelectSeq(docs, LAMBDA d :
                      "trace_id" \in DOMAIN d /\ d.trace_id = trace_id)
               ELSE <<>>
  IN  sort_by_hop_ts(out)

\* ----------------------------------------------------- CachingReceiptStore
CachedKeys == DOMAIN chains

RefreshKeys == {last_refresh[i][1] : i \in DOMAIN last_refresh}

RefreshOf(trace_id) ==
  last_refresh[CHOOSE i \in DOMAIN last_refresh : last_refresh[i][1] = trace_id][2]

\* Mutant of PopRefresh: the refresh time is left behind.
PopRefresh_keeps(lr, trace_id) == lr

\* dict.pop(trace_id, None) on _chains and on _last_refresh
PopChain(ch, trace_id) == [k \in DOMAIN ch \ {trace_id} |-> ch[k]]
PopRefresh(lr, trace_id) == SelectSeq(lr, LAMBDA item : item[1] # trace_id)

\* _last_refresh[trace_id] = t: in place when the key is there, else last.
SetRefresh(lr, trace_id, t) ==
  IF \E i \in DOMAIN lr : lr[i][1] = trace_id
    THEN [i \in DOMAIN lr |-> IF lr[i][1] = trace_id THEN <<trace_id, t>> ELSE lr[i]]
    ELSE Append(lr, <<trace_id, t>>)

\* sum(len(v) for v in self._chains.values())
RECURSIVE SumLen(_, _)
SumLen(ch, keys) ==
  IF keys = {} THEN 0
  ELSE LET k == CHOOSE x \in keys : TRUE
       IN  Len(ch[k]) + SumLen(ch, keys \ {k})

\* Mutant of expired: a snapshot expires once its age reaches the TTL.
expired_at_ttl(trace_id) ==
  IF trace_id \notin RefreshKeys THEN TRUE
  ELSE IF ttl_seconds <= 0 THEN FALSE
  ELSE (now - RefreshOf(trace_id)) >= ttl_seconds

\* _expired(trace_id)
expired(trace_id) ==
  IF trace_id \notin RefreshKeys THEN TRUE
  ELSE IF ttl_seconds <= 0 THEN FALSE
  ELSE (now - RefreshOf(trace_id)) > ttl_seconds

RefreshLt(x, y) == x[2] < y[2]

\* Mutant of sort_by_refresh: most recently refreshed first.
sort_by_refresh_newest_first(s) ==
  LET n == Len(s)
      rank(i) == 1 + Cardinality({j \in 1..n :
                        RefreshLt(s[i], s[j]) \/ (~RefreshLt(s[j], s[i]) /\ j < i)})
  IN  [p \in 1..n |-> s[CHOOSE i \in 1..n : rank(i) = p]]

\* sorted(self._last_refresh.items(), key=lambda x: x[1]): stable.
sort_by_refresh(s) ==
  LET n == Len(s)
      rank(i) == 1 + Cardinality({j \in 1..n :
                        RefreshLt(s[j], s[i]) \/ (~RefreshLt(s[i], s[j]) /\ j < i)})
  IN  [p \in 1..n |-> s[CHOOSE i \in 1..n : rank(i) = p]]

\* The loop of _enforce_size over `ordered`, from item i on.
RECURSIVE EvictFrom(_, _, _)
EvictFrom(ordered, i, c) ==
  IF i > Len(ordered) THEN c
  ELSE LET trace_id == ordered[i][1]
           removed == Len(Get(c.chains, trace_id, <<>>))
           c2 == [chains |-> PopChain(c.chains, trace_id),
                  last_refresh |-> PopRefresh(c.last_refresh, trace_id),
                  total_cached |-> c.total_cached - removed]
       IN  IF c2.total_cached <= max_size THEN c2
           ELSE EvictFrom(ordered, i + 1, c2)

\* Mutant of enforce_size: the loop ends after its first eviction.
enforce_size_once(c) ==
  IF max_size <= 0 THEN c
  ELSE IF c.total_cached <= max_size THEN c
  ELSE LET trace_id == sort_by_refresh(c.last_refresh)[1][1]
       IN  [chains |-> PopChain(c.chains, trace_id),
            last_refresh |-> PopRefresh(c.last_refresh, trace_id),
            total_cached |->
              c.total_cached - Len(Get(c.chains, trace_id, <<>>))]

\* _enforce_size on the cache state c
enforce_size(c) ==
  IF max_size <= 0 THEN c
  ELSE IF c.total_cached <= max_size THEN c
  ELSE EvictFrom(sort_by_refresh(c.last_refresh), 1, c)

\* bool(added.get("trace_id"))
Truthy(obj, k) == k \in DOMAIN obj /\ obj[k] # ""

\* CachingReceiptStore.add after the wrapped add returned `ret`: the cache.
CachingReceiptStore_add(ret) ==
  IF Truthy(ret, "trace_id")
    THEN [chains |-> PopChain(chains, ret.trace_id),
          last_refresh |-> PopRefresh(last_refresh, ret.trace_id),
          total_cached |-> total_cached]
    ELSE [chains |-> chains, last_refresh |-> last_refresh,
          total_cached |-> total_cached]

\* CachingReceiptStore.chain serves trace_id from the cache.
CacheHit(trace_id) == trace_id \in CachedKeys /\ ~expired(trace_id)

\* CachingReceiptStore.chain on a miss, `fresh` being the wrapped chain.
CachingReceiptStore_refresh(trace_id, fresh) ==
  LET ch == [k \in CachedKeys \cup {trace_id} |->
               IF k = trace_id THEN fresh ELSE chains[k]]
  IN  enforce_size([chains |-> ch,
                    last_refresh |-> SetRefresh(last_refresh, trace_id, now),
                    total_cached |-> SumLen(ch, DOMAIN ch)])

\* ------------------------------------------------------------ construction
Threads == {1, 2}

NoOut == [raised |-> FALSE, ret |-> <<>>, lines |-> <<>>]
Idle == [pc |-> "idle", r |-> <<>>, out |-> NoOut, pre |-> <<>>]
NoRead == [by |-> 0, saw |-> <<>>, during |-> {}]

\* ------------------------------------------------------------ billing.py
\* The billing module as main.py runs it without a Firestore client and
\* without Stripe credentials (FIRESTORE_PROJECT and STRIPE_API_KEY unset):
\* usage is not persisted, nothing is published, and the persistent
\* idempotency lookup answers False.
ProjectId == "local-project"

\* _current_month_key() over two consecutive months.
MonthKeys == <<"2026-11", "2026-12">>

current_month_key == MonthKeys[month]

Tiers == {"free", "pro", "auto"}       \* ODIN_BILLING_TIER
FreeLimits == {0, 1, 2}                \* FREE_TIER_MONTHLY_RECEIPT_LIMIT
BillingEnvs == [tier : Tiers, limit : FreeLimits]

\* _reset_month_if_needed: the usage cache and its month afterwards.
reset_month_if_needed ==
  IF usage_cache_month # current_month_key
    THEN [usage |-> <<>>, mk |-> current_month_key]
    ELSE [usage |-> usage_cache, mk |-> usage_cache_month]

\* configured_tier(project_id) with the subscription cache as it is at the
\* call: the environment's tier unless it is "auto", then the cached
\* subscription's, then "free".
configured_tier(subs, project_id) ==
  IF billing_env.tier # "auto"
    THEN billing_env.tier
    ELSE IF project_id # "" /\ project_id \in DOMAIN subs
           THEN subs[project_id].tier
           ELSE "free"

free_tier_limit == billing_env.limit

\* Mutant of enforce_quota: the comparison is strict.
enforce_quota_strict(tier, usage) == tier = "free" /\ usage > free_tier_limit

\* enforce_quota raises HTTPException(402): tier and usage are
\* configured_tier(project_id) and current_usage(project_id).
enforce_quota(tier, usage) == tier = "free" /\ usage >= free_tier_limit

\* record_receipt: the usage cache and its month afterwards.
record_receipt(project_id) ==
  LET c == reset_month_if_needed
  IN  [usage |-> With(c.usage, project_id, Get(c.usage, project_id, 0) + 1),
       mk |-> c.mk]

\* An envelope request, by what the handler's checks make of it: whether
\* sft.normalize accepts the payload, whether the API key and MAC check
\* passes (or no key is configured), and the forward step: no forward_url,
\* one the policy allows whose POST answers or fails, one the policy blocks.
Requests ==
  [normalizes : BOOLEAN, auth : {"ok", "denied"},
   forward : {"none", "answers", "fails", "blocked"}]

NoRequest == [normalizes |-> FALSE, auth |-> "", forward |-> ""]

\* hel.check_forward_allowed(env.forward_url)[0]: True without a
\* forward_url, else whether the URL's host is on HEL_ALLOWLIST.
check_forward_allowed(forward) == forward # "blocked"

\* The receipt handle_envelope builds, by the fields the store reads and the
\* policy verdict.
Receipt(req) ==
  [trace_id |-> "a", hop |-> 0, ts |-> Aware(now),
   policy |-> [engine |-> "HEL", allowed |-> check_forward_allowed(req.forward)]]

\* Mutant of handle_envelope: the receipt is appended and the usage
\* recorded before the API key and the quota are checked.
handle_envelope_persist_first(req) ==
  LET tier == configured_tier(subscription_cache, ProjectId)
      c == reset_month_if_needed
      kept == [usage |-> usage_cache, mk |-> usage_cache_month]
      out == ReceiptStore_add(Receipt(req), read_lines)
      Answer(status, stored, posted, u) ==
        [status |-> status, stored |-> stored, posted |-> posted,
         usage |-> u.usage, mk |-> u.mk,
         out |-> IF stored THEN out ELSE NoOut]
  IN  IF ~req.normalizes THEN Answer(400, FALSE, FALSE, kept)
      ELSE IF out.raised THEN Answer(500, FALSE, FALSE, kept)
      ELSE IF req.auth # "ok"
        THEN Answer(401, TRUE, FALSE, record_receipt(ProjectId))
      ELSE IF enforce_quota(tier, Get(c.usage, ProjectId, 0))
        THEN Answer(402, TRUE, FALSE, record_receipt(ProjectId))
      ELSE IF req.forward # "none" /\ ~check_forward_allowed(req.forward)
        THEN Answer(403, TRUE, FALSE, record_receipt(ProjectId))
      ELSE Answer(200, TRUE, req.forward # "none", record_receipt(ProjectId))

\* Mutant of handle_envelope: a blocked forward is refused before the
\* receipt is appended.
handle_envelope_policy_first(req) ==
  LET tier == configured_tier(subscription_cache, ProjectId)
      c == reset_month_if_needed
      kept == [usage |-> usage_cache, mk |-> usage_cache_month]
      checked == IF tier = "free" THEN c ELSE kept
      out == ReceiptStore_add(Receipt(req), read_lines)
      Answer(status, stored, posted, u) ==
        [status |-> status, stored |-> stored, posted |-> posted,
         usage |-> u.usage, mk |-> u.mk,
         out |-> IF stored THEN out ELSE NoOut]
  IN  IF ~req.normalizes THEN Answer(400, FALSE, FALSE, kept)
      ELSE IF req.auth # "ok" THEN Answer(401, FALSE, FALSE, kept)
      ELSE IF enforce_quota(tier, Get(c.usage, ProjectId, 0))
        THEN Answer(402, FALSE, FALSE, c)
      ELSE IF req.forward # "none" /\ ~check_forward_allowed(req.forward)
        THEN Answer(403, FALSE, FALSE, checked)
      ELSE IF out.raised THEN Answer(500, FALSE, FALSE, checked)
      ELSE Answer(200, TRUE, req.forward # "none", record_receipt(ProjectId))

\* handle_envelope: the status it answers with, whether store.add and
\* record_receipt ran, whether it POSTed to forward_url, and the usage cache
\* it leaves.
handle_envelope(req) ==
  LET tier == configured_tier(subscription_cache, ProjectId)
      c == reset_month_if_needed
      kept == [usage |-> usage_cache, mk |-> usage_cache_month]
      checked == IF tier = "free" THEN c ELSE kept
      out == ReceiptStore_add(Receipt(req), read_lines)
      Answer(status, stored, posted, u) ==
        [status |-> status, stored |-> stored, posted |-> posted,
         usage |-> u.usage, mk |-> u.mk,
         out |-> IF stored THEN out ELSE NoOut]
  IN  IF ~req.normalizes THEN Answer(400, FALSE, FALSE, kept)
      ELSE IF req.auth # "ok" THEN Answer(401, FALSE, FALSE, kept)
      ELSE IF enforce_quota(tier, Get(c.usage, ProjectId, 0))
        THEN Answer(402, FALSE, FALSE, c)
      ELSE IF out.raised THEN Answer(500, FALSE, FALSE, checked)
      ELSE IF req.forward # "none" /\ ~check_forward_allowed(req.forward)
        THEN Answer(403, TRUE, FALSE, record_receipt(ProjectId))
      ELSE Answer(200, TRUE, req.forward # "none", record_receipt(ProjectId))

\* A verified Stripe event, by what the handler reads of it: its id ("" when
\* it has none), its type, the project_id of its metadata ("" when absent)
\* and the tier _infer_tier_from_prices gives its prices ("" for None).
EventIds == {"", "evt_1", "evt_2", "evt_3"}
EventTypes ==
  {"checkout.session.completed", "customer.subscription.updated", "invoice.paid"}
Events ==
  [id : EventIds, type : EventTypes, project_id : {"", ProjectId},
   tier : {"", "pro"}]

NoEvent == [id |-> "", type |-> "", project_id |-> "", tier |-> ""]

\* event_id in _processed_event_ids
InWindow(ids, id) == \E i \in DOMAIN ids : ids[i] = id

\* deque(maxlen=IdWindow).append
deque_append(q, x) ==
  IF Len(q) + 1 > IdWindow THEN Tail(Append(q, x)) ELSE Append(q, x)

\* Mutant of handle_webhook_event: no in-memory idempotency check.
handle_webhook_event_unchecked(event) ==
  LET records == /\ event.type \in {"checkout.session.completed",
                                    "customer.subscription.updated"}
                 /\ event.project_id # "" /\ event.tier # ""
      subs == IF records
                THEN With(subscription_cache, event.project_id,
                          [tier |-> event.tier, status |-> "active"])
                ELSE subscription_cache
  IN  [idempotent |-> FALSE, project_id |-> event.project_id,
       tier_changed |-> records,
       tier |-> IF event.project_id # ""
                  THEN configured_tier(subs, event.project_id) ELSE "",
       subs |-> subs,
       ids |-> IF event.id # ""
                 THEN deque_append(processed_event_ids, event.id)
                 ELSE processed_event_ids]

\* handle_webhook_event: the dict it returns, and the subscription cache and
\* the id window it leaves. _record_subscription_state runs for a checkout
\* or subscription event that names a project and whose prices map to a
\* tier.
handle_webhook_event(event) ==
  LET records == /\ event.type \in {"checkout.session.completed",
                                    "customer.subscription.updated"}
                 /\ event.project_id # "" /\ event.tier # ""
      subs == IF records
                THEN With(subscription_cache, event.project_id,
                          [tier |-> event.tier, status |-> "active"])
                ELSE subscription_cache
  IN  IF event.id # "" /\ InWindow(processed_event_ids, event.id)
        THEN [idempotent |-> TRUE, project_id |-> "", tier_changed |-> FALSE,
              tier |-> "", subs |-> subscription_cache,
              ids |-> processed_event_ids]
        ELSE [idempotent |-> FALSE, project_id |-> event.project_id,
              tier_changed |-> records,
              tier |-> IF event.project_id # ""
                         THEN configured_tier(subs, event.project_id) ELSE "",
              subs |-> subs,
              ids |-> IF event.id # ""
                        THEN deque_append(processed_event_ids, event.id)
                        ELSE processed_event_ids]

NoResponse ==
  [op |-> "none", n |-> 0, status |-> 0, request |-> NoRequest,
   event |-> NoEvent, idempotent |-> FALSE, tier_changed |-> FALSE,
   tier |-> "", project_id |-> "", receipt |-> <<>>, posted |-> FALSE]

\* The billing module before any request, in a process that serves none.
BillingIdle ==
  /\ billing_env = [tier |-> "free", limit |-> 0]
  /\ month = 1
  /\ usage_cache = <<>>
  /\ usage_cache_month = "None"
  /\ subscription_cache = <<>>
  /\ processed_event_ids = <<>>
  /\ response = NoResponse
  /\ issued = [m \in DOMAIN MonthKeys |-> 0]
  /\ handled = {}

\* The environment of load_receipt_store: FIRESTORE_PROJECT is set, the
\* FirestoreReceiptStore constructor returns (it is only called when the
\* project is set), ODIN_RECEIPT_CACHE is on.
Envs ==
  {e \in [project : BOOLEAN, constructs : BOOLEAN, cache_flag : BOOLEAN] :
     e.constructs => e.project}

\* Mutant of load_receipt_store: no fallback when the constructor raises.
load_receipt_store_no_fallback(e) ==
  IF e.project
    THEN <<"firestore", FALSE>>
    ELSE IF e.cache_flag THEN <<"file", TRUE>> ELSE <<"file", FALSE>>

\* load_receipt_store: <<the backend of the store it returns, whether the
\* store is wrapped in a CachingReceiptStore>>. With a project it returns
\* the Firestore store, or the file store when the constructor raises, as
\* is; without one, the file store, wrapped when the cache flag is on.
load_receipt_store(e) ==
  IF e.project
    THEN IF e.constructs THEN <<"firestore", FALSE>> ELSE <<"file", FALSE>>
    ELSE IF e.cache_flag THEN <<"file", TRUE>> ELSE <<"file", FALSE>>

\* The stores load_receipt_store can return.
Selections == {load_receipt_store(e) : e \in Envs}

\* The stores that are not wrapped in the cache.
Bare == {sel \in Selections : ~sel[2]}

InitStores ==
  /\ now = 0
  /\ file = <<>>
  /\ docs = <<>>
  /\ chains = <<>>
  /\ last_refresh = <<>>
  /\ total_cached = 0
  /\ added = <<>>
  /\ last = NoCall
  /\ thr = [t \in Threads |-> Idle]
  /\ seen = NoRead
  /\ mappings = <<>>
  /\ cids = <<>>
  /\ BillingIdle

\* The store main.py holds: store = load_receipt_store().
Loaded ==
  /\ backend = load_receipt_store(env)[1]
  /\ cache_enabled = load_receipt_store(env)[2]

Init ==
  /\ InitStores
  /\ env \in {e \in Envs : e.constructs = e.project /\ ~e.cache_flag}
  /\ Loaded
  /\ max_age_seconds \in (IF backend = "file"
                             THEN {ReceiptStore_init(v) : v \in RetentionEnv}
                             ELSE {0})
  /\ ttl_seconds = 0
  /\ max_size = 0

InitCache ==
  /\ InitStores
  /\ env \in {e \in Envs : load_receipt_store(e) \in Selections \ Bare}
  /\ Loaded
  /\ max_age_seconds \in RetentionChoices
  /\ ttl_seconds \in TtlChoices
  /\ max_size \in SizeChoices

\* ---------------------------------------------------- sequential callers
\* A call on a bare store: what was called, with which key, what it returned
\* and whether the store's own query answered. `signals` holds what the call
\* emitted besides its result (log records, metrics, warnings): no method of
\* any store emits anything.
Call(op, key, result, fetched) ==
  [op |-> op, key |-> key, result |-> result, fetched |-> fetched,
   repeat |-> FALSE, signals |-> {}]

\* A call through the decorator: `fetched` tells whether the wrapped chain
\* was invoked, `repeat` whether the call right before it was the same one.
CachedCall(op, key, result, fetched) ==
  [op |-> op, key |-> key, result |-> result, fetched |-> fetched,
   repeat |-> (last.op = op /\ last.key = key), signals |-> {}]

Returned(r, ret, lookup_ok) ==
  [input |-> r, ret |-> ret, lookup_ok |-> lookup_ok]

\* The clock advances between calls. Only the file store (pruning) and the
\* cache (TTL) read it.
Tick ==
  /\ backend = "file"
  /\ now < MaxTime
  /\ now' = now + 1
  /\ UNCHANGED <<config, encoder, billing, file, docs, cache, added, last, thr, seen>>

\* store.add(r) on the bare file store
FileAdd(r) ==
  /\ backend = "file" /\ ~cache_enabled
  /\ Len(added) < MaxAdds
  /\ LET out == ReceiptStore_add(r, read_lines)
     IN  IF out.raised
           THEN /\ last' = Call("add_raised", Get(r, "trace_id", ""), <<>>, FALSE)
                /\ UNCHANGED <<file, added>>
           ELSE /\ file' = out.lines
                /\ added' = Append(added, Returned(r, out.ret, TRUE))
                /\ last' = Call("add", Get(r, "trace_id", ""), <<out.ret>>, FALSE)
  /\ UNCHANGED <<config, encoder, billing, now, docs, cache, thr, seen>>

\* store.chain(trace_id) on the bare file store
FileChain(trace_id) ==
  /\ backend = "file" /\ ~cache_enabled
  /\ last' = Call("chain", trace_id, ReceiptStore_chain(trace_id, read_lines), TRUE)
  /\ UNCHANGED <<config, encoder, billing, now, file, docs, cache, added, thr, seen>>

\* store.add(r) through the caching decorator
CachedAdd(r) ==
  /\ backend = "file" /\ cache_enabled
  /\ Len(added) < MaxCachedAdds
  /\ LET out == ReceiptStore_add(r, read_lines)
         c == CachingReceiptStore_add(out.ret)
     IN  IF out.raised
           THEN /\ last' = CachedCall("add_raised", r.trace_id, <<>>, FALSE)
                /\ UNCHANGED <<file, cache, added>>
           ELSE /\ file' = out.lines
                /\ chains' = c.chains
                /\ last_refresh' = c.last_refresh
                /\ total_cached' = c.total_cached
                /\ added' = Append(added, Returned(r, out.ret, TRUE))
                /\ last' = CachedCall("add", r.trace_id, <<out.ret>>, FALSE)
  /\ UNCHANGED <<config, encoder, billing, now, docs, thr, seen>>

\* store.chain(trace_id) through the caching decorator
CachedChain(trace_id) ==
  /\ backend = "file" /\ cache_enabled
  /\ IF CacheHit(trace_id)
       THEN /\ last' = CachedCall("chain", trace_id, chains[trace_id], FALSE)
            /\ UNCHANGED cache
       ELSE LET fresh == ReceiptStore_chain(trace_id, read_lines)
                c == CachingReceiptStore_refresh(trace_id, fresh)
            IN  /\ chains' = c.chains
                /\ last_refresh' = c.last_refresh
                /\ total_cached' = c.total_cached
                /\ last' = CachedCall("chain", trace_id, fresh, TRUE)
  /\ UNCHANGED <<config, encoder, billing, now, file, docs, added, thr, seen>>

\* store.add(r) on the Firestore store; the "latest" query may raise.
FirestoreAdd(r) ==
  /\ backend = "firestore"
  /\ Len(added) < MaxAdds
  /\ \E query_ok \in BOOLEAN :
       \E prev_hash \in latest_receipt_hash(query_ok) :
         \E pos \in 1..(Len(docs) + 1) :
           LET r2 == FirestoreReceiptStore_add(r, prev_hash)
           IN  /\ docs' = InsertAt(docs, pos, r2)
               /\ added' = Append(added, Returned(r, r2, query_ok))
               /\ last' = Call("add", r.trace_id, <<r2>>, FALSE)
  /\ UNCHANGED <<config, encoder, billing, now, file, cache, thr, seen>>

\* store.add(r) on the Firestore store when collection.add raises: the
\* RuntimeError reaches the caller and nothing is stored.
FirestoreAddRaises(r) ==
  /\ backend = "firestore"
  /\ Len(added) < MaxAdds
  /\ last' = Call("add_raised", r.trace_id, <<>>, FALSE)
  /\ UNCHANGED <<config, encoder, billing, now, file, docs, cache, added, thr, seen>>

\* store.chain(trace_id) on the Firestore store; the query may raise.
FirestoreChain(trace_id) ==
  /\ backend = "firestore"
  /\ \E query_ok \in BOOLEAN :
       last' = Call("chain", trace_id,
                    FirestoreReceiptStore_chain(trace_id, query_ok), query_ok)
  /\ UNCHANGED <<config, encoder, billing, now, file, docs, cache, added, thr, seen>>

Next ==
  \/ Tick
  \/ \E r \in Inputs : FileAdd(r)
  \/ \E k \in TraceIds : FileChain(k)
  \/ \E r \in RemoteInputs : FirestoreAdd(r)
  \/ \E r \in RemoteInputs : FirestoreAddRaises(r)
  \/ \E k \in TraceIds : FirestoreChain(k)

Spec == Init /\ [][Next]_vars

\* The records the callers pass to add through the cache: main.py's receipt
\* with ts = now_iso().
CacheInputs == {[trace_id |-> k, hop |-> 0, ts |-> Aware(now)] : k \in TraceIds}

NextCache ==
  \/ Tick
  \/ \E r \in CacheInputs : CachedAdd(r)
  \/ \E k \in TraceIds : CachedChain(k)

SpecCache == InitCache /\ [][NextCache]_vars

\* ------------------------------------------------ a log with foreign lines
\* The file store started on a log file that holds, besides the lines two
\* earlier adds wrote (hop 1, then hop 0, of trace "a"), blank lines and
\* lines that are not receipts, in any number and at any position.
GoodLine1 == json_dumps(stamp([trace_id |-> "a", hop |-> 1, ts |-> Aware(0)], None))
GoodLine2 ==
  json_dumps(stamp([trace_id |-> "a", hop |-> 0, ts |-> Aware(0)],
                   json_loads(GoodLine1).receipt_hash))

DirtyLines == {GoodLine1, GoodLine2, BadJson, NotObject, <<>>}

DirtyLogs ==
  {s \in UNION {[1..n -> DirtyLines] : n \in 0..MaxDirtyLines} :
     SelectSeq(s, LAMBDA ln : ln \in {GoodLine1, GoodLine2})
       \in {<<>>, <<GoodLine1>>, <<GoodLine1, GoodLine2>>}}

InitDirty ==
  /\ env = [project |-> FALSE, constructs |-> FALSE, cache_flag |-> FALSE]
  /\ Loaded
  /\ max_age_seconds \in RetentionChoices
  /\ ttl_seconds = 0
  /\ max_size = 0
  /\ now = 0
  /\ file \in DirtyLogs \cup {NoFile}
  /\ docs = <<>>
  /\ chains = <<>>
  /\ last_refresh = <<>>
  /\ total_cached = 0
  /\ added = <<>>
  /\ last = NoCall
  /\ thr = [t \in Threads |-> Idle]
  /\ seen = NoRead
  /\ mappings = <<>>
  /\ cids = <<>>
  /\ BillingIdle

NextDirty ==
  \/ Tick
  \/ Len(added) < MaxDirtyAdds /\ \E r \in CacheInputs : FileAdd(r)
  \/ \E k \in TraceIds : FileChain(k)

SpecDirty == InitDirty /\ [][NextDirty]_vars

\* The decorator over a file store started on such a log: the wrapped add
\* raises when the last line is not a receipt.
WrappedLogs ==
  {<<>>, <<GoodLine1>>, <<GoodLine1, BadJson>>, <<GoodLine1, NotObject>>}

InitWrapped ==
  /\ env \in {e \in Envs : load_receipt_store(e) = <<"file", TRUE>>}
  /\ Loaded
  /\ max_age_seconds = 0
  /\ ttl_seconds \in TtlChoices
  /\ max_size \in SizeChoices
  /\ now = 0
  /\ file \in WrappedLogs
  /\ docs = <<>>
  /\ chains = <<>>
  /\ last_refresh = <<>>
  /\ total_cached = 0
  /\ added = <<>>
  /\ last = NoCall
  /\ thr = [t \in Threads |-> Idle]
  /\ seen = NoRead
  /\ mappings = <<>>
  /\ cids = <<>>
  /\ BillingIdle

SpecWrapped == InitWrapped /\ [][NextCache]_vars

\* ------------------------------------------------------------- the encoder
\* The insertion orders of a set of items.
Orders(S) ==
  {s \in [1..Cardinality(S) -> S] : \A i, j \in DOMAIN s : s[i] = s[j] => i = j}

\* main.py's receipt, cut to three fields, one of them the nested policy
\* dict, written in every insertion order at both levels.
Mappings ==
  UNION { Orders({ <<"trace_id", Scalar("a")>>,
                   <<"hop", Scalar(h)>>,
                   <<"policy", Dict(pol)>> }) :
            h \in {"0", "1"},
            pol \in Orders({ <<"allowed", Scalar("true")>>,
                             <<"reason", Scalar("ok")>> }) }

InitEncoder ==
  /\ InitStores
  /\ env = [project |-> FALSE, constructs |-> FALSE, cache_flag |-> FALSE]
  /\ backend = "unset" /\ cache_enabled = FALSE
  /\ max_age_seconds = 0
  /\ ttl_seconds = 0
  /\ max_size = 0

\* sha256_cid(canonical_json(m)) computed for two mappings.
Encode(m1, m2) ==
  /\ mappings' = <<m1, m2>>
  /\ cids' = <<sha256_cid(canonical_json_ordered(m1)),
               sha256_cid(canonical_json_ordered(m2))>>
  /\ UNCHANGED <<config, billing, now, file, docs, cache, added, last, thr,
                 seen>>

NextEncoder == \E m1, m2 \in Mappings : Encode(m1, m2)

SpecEncoder == InitEncoder /\ [][NextEncoder]_vars

\* ---------------------------------------------------------- store selection
\* The process from its start: main.py calls load_receipt_store() once, under
\* any environment, and the endpoints then call add and chain on the store
\* it returned, whichever it is.
InitSelect ==
  /\ InitStores
  /\ env \in Envs
  /\ backend = "unset" /\ cache_enabled = FALSE
  /\ max_age_seconds = 0
  /\ ttl_seconds = 0
  /\ max_size = 0

\* store = load_receipt_store()
LoadStore ==
  /\ backend = "unset"
  /\ backend' = load_receipt_store(env)[1]
  /\ cache_enabled' = load_receipt_store(env)[2]
  /\ UNCHANGED <<env, max_age_seconds, ttl_seconds, max_size, encoder,
                 billing, now, file, docs, cache, added, last, thr, seen>>

NextSelect ==
  \/ LoadStore
  \/ \E r \in CacheInputs : FileAdd(r)
  \/ \E k \in TraceIds : FileChain(k)
  \/ \E r \in CacheInputs : FirestoreAdd(r)
  \/ \E k \in TraceIds : FirestoreChain(k)
  \/ \E r \in CacheInputs : CachedAdd(r)
  \/ \E k \in TraceIds : CachedChain(k)

SpecSelect == InitSelect /\ [][NextSelect]_vars

\* ------------------------------------------------- the two stores in step
\* A ReceiptStore (retention disabled) and a FirestoreReceiptStore built
\* directly and given the same calls, one after the other; no query of
\* the remote store fails. `last.result` is <<what the file store
\* returned, what the remote store returned>>.
InitBoth ==
  /\ InitStores
  /\ env = [project |-> FALSE, constructs |-> FALSE, cache_flag |-> FALSE]
  /\ backend = "both" /\ cache_enabled = FALSE
  /\ max_age_seconds = 0
  /\ ttl_seconds = 0
  /\ max_size = 0

BothAdd(r) ==
  /\ backend = "both"
  /\ Len(added) < MaxAdds
  /\ LET out == ReceiptStore_add(r, read_lines)
     IN  \E prev_hash \in latest_receipt_hash(TRUE) :
           \E pos \in 1..(Len(docs) + 1) :
             LET r2 == FirestoreReceiptStore_add(r, prev_hash)
             IN  /\ file' = out.lines
                 /\ docs' = InsertAt(docs, pos, r2)
                 /\ added' = Append(added, Returned(r, out.ret, TRUE))
                 /\ last' = Call("add", r.trace_id, <<out.ret, r2>>, TRUE)
  /\ UNCHANGED <<config, encoder, billing, now, cache, thr, seen>>

BothChain(trace_id) ==
  /\ backend = "both"
  /\ last' = Call("chain", trace_id,
                  <<ReceiptStore_chain(trace_id, read_lines),
                    FirestoreReceiptStore_chain(trace_id, TRUE)>>, TRUE)
  /\ UNCHANGED <<config, encoder, billing, now, file, docs, cache, added, thr, seen>>

NextBoth ==
  \/ \E r \in RemoteInputs : BothAdd(r)
  \/ \E k \in TraceIds : BothChain(k)

SpecBoth == InitBoth /\ [][NextBoth]_vars

\* --------------------------------------------------------- request threads
\* handle_envelope and get_chain are sync endpoints: FastAPI runs each
\* request in a worker thread, and ReceiptStore takes no lock. A thread's
\* add is three steps on the shared file: _read_lines; open(path, "w"),
\* which truncates the file; f.write and close, which put the lines there.
InitThreads ==
  /\ InitStores
  /\ env = [project |-> FALSE, constructs |-> FALSE, cache_flag |-> FALSE]
  /\ Loaded
  /\ max_age_seconds \in RetentionChoices
  /\ ttl_seconds = 0
  /\ max_size = 0

InFlight == {t \in Threads : thr[t].pc # "idle"}

\* The rewrites in progress when a thread reads the file: for each, the
\* contents before its open and the contents it is about to write.
Rewrites == {<<thr[w].pre, thr[w].out.lines>> : w \in {t \in Threads : thr[t].pc = "flush"}}

ReadBy(t) == [by |-> t, saw |-> read_lines, during |-> Rewrites]

\* lines = self._read_lines(), then the prune, the link and the hash, all
\* on the thread's own copy.
T_AddRead(t, r) ==
  /\ thr[t].pc = "idle"
  /\ Len(added) + Cardinality(InFlight) < MaxThreadAdds
  /\ LET out == ReceiptStore_add(r, read_lines)
     IN  IF out.raised
           THEN /\ last' = Call("add_raised", r.trace_id, <<>>, FALSE)
                /\ UNCHANGED thr
           ELSE /\ thr' = [thr EXCEPT ![t] = [pc |-> "open", r |-> r,
                                               out |-> out, pre |-> <<>>]]
                /\ UNCHANGED last
  /\ seen' = ReadBy(t)
  /\ UNCHANGED <<config, encoder, billing, now, file, docs, cache, added>>

\* _write_lines: open(self.path, "w") truncates the file.
T_AddOpen(t) ==
  /\ thr[t].pc = "open"
  /\ file' = <<>>
  /\ thr' = [thr EXCEPT ![t].pc = "flush", ![t].pre = file]
  /\ UNCHANGED <<config, encoder, billing, now, docs, cache, added, last, seen>>

\* _write_lines: f.write(...) and the close; add returns r2.
T_AddFlush(t) ==
  /\ thr[t].pc = "flush"
  /\ file' = thr[t].out.lines
  /\ added' = Append(added, Returned(thr[t].r, thr[t].out.ret, TRUE))
  /\ last' = Call("add", thr[t].out.ret.trace_id, <<thr[t].out.ret>>, FALSE)
  /\ thr' = [thr EXCEPT ![t] = Idle]
  /\ UNCHANGED <<config, encoder, billing, now, docs, cache, seen>>

\* store.chain(trace_id) on a thread: one read of the file.
T_Chain(t, trace_id) ==
  /\ thr[t].pc = "idle"
  /\ seen' = ReadBy(t)
  /\ last' = Call("chain", trace_id, ReceiptStore_chain(trace_id, read_lines), TRUE)
  /\ UNCHANGED <<config, encoder, billing, now, file, docs, cache, added, thr>>

NextThreads ==
  \/ Tick
  \/ \E t \in Threads : \E r \in CacheInputs : T_AddRead(t, r)
  \/ \E t \in Threads : T_AddOpen(t)
  \/ \E t \in Threads : T_AddFlush(t)
  \/ \E t \in Threads : \E k \in TraceIds : T_Chain(t, k)

SpecThreads == InitThreads /\ [][NextThreads]_vars

\* ------------------------------------------------------- construction again
\* ReceiptStore(path, max_age_seconds) is constructed anew on the same log,
\* under any value of ODIN_RETENTION_MAX_AGE_SECONDS.
Construct(env_val, arg) ==
  /\ backend = "file" /\ ~cache_enabled
  /\ max_age_seconds' = ReceiptStore_new(env_val, arg)
  /\ last' = Call("init", env_val, <<arg>>, FALSE)
  /\ UNCHANGED <<env, backend, cache_enabled, ttl_seconds, max_size, encoder,
                 billing, now, file, docs, cache, added, thr, seen>>

InitConstruct ==
  /\ InitStores
  /\ env = [project |-> FALSE, constructs |-> FALSE, cache_flag |-> FALSE]
  /\ Loaded
  /\ max_age_seconds = ReceiptStore_init("")
  /\ ttl_seconds = 0
  /\ max_size = 0

NextConstruct ==
  \/ Tick
  \/ \E v \in RetentionTexts : \E arg \in RetentionArgs : Construct(v, arg)
  \/ Len(added) < MaxDirtyAdds /\ \E r \in CacheInputs : FileAdd(r)

SpecConstruct == InitConstruct /\ [][NextConstruct]_vars

\* ------------------------------------------------------- the loops, stepwise
\* One caller of the decorator over a file store, each call taken one loop
\* iteration at a time: the for loops of _prune_by_age, of ReceiptStore.chain
\* and of _enforce_size. The caller's position is thr[1].pc; thr[1].pre
\* holds what the loop has yet to visit, thr[1].out.lines what it collected.
\* The clock reads the same throughout: the log of an earlier run is as old
\* as the retention window or older.
InitSteps ==
  /\ env \in {e \in Envs : load_receipt_store(e) = <<"file", TRUE>>}
  /\ Loaded
  /\ max_age_seconds \in RetentionChoices
  /\ ttl_seconds = 0
  /\ max_size = 1
  /\ now \in {0, MaxTime}
  /\ file \in {<<>>, <<GoodLine1>>, <<GoodLine1, BadJson>>}
  /\ docs = <<>>
  /\ chains = <<>>
  /\ last_refresh = <<>>
  /\ total_cached = 0
  /\ added = <<>>
  /\ last = NoCall
  /\ thr = [t \in Threads |-> Idle]
  /\ seen = NoRead
  /\ mappings = <<>>
  /\ cids = <<>>
  /\ BillingIdle

At(pc) == thr[1].pc = pc

Goto(pc, r, todo, collected) ==
  thr' = [thr EXCEPT ![1] = [pc |-> pc, r |-> r, pre |-> todo,
                             out |-> [NoOut EXCEPT !.lines = collected]]]

Return == thr' = [thr EXCEPT ![1] = Idle]

\* add: lines = self._read_lines(); _prune_by_age returns them at once when
\* retention is off, else starts its loop.
S_AddBegin(r) ==
  /\ At("idle")
  /\ Len(added) < MaxCachedAdds
  /\ IF max_age_seconds = 0 \/ max_age_seconds <= 0
       THEN Goto("prune", r, <<>>, read_lines)
       ELSE Goto("prune", r, read_lines, <<>>)
  /\ UNCHANGED <<config, encoder, billing, now, file, docs, cache, added, last, seen>>

\* for ln in lines: one iteration of _prune_by_age
S_PruneLoop ==
  /\ At("prune") /\ thr[1].pre # <<>>
  /\ LET ln == Head(thr[1].pre)
         kept == thr[1].out.lines
     IN  Goto("prune", thr[1].r, Tail(thr[1].pre),
              IF KeepsLine(ln, now - max_age_seconds)
                THEN Append(kept, ln) ELSE kept)
  /\ UNCHANGED <<config, encoder, billing, now, file, docs, cache, added, last, seen>>

\* the rest of ReceiptStore.add and of CachingReceiptStore.add
S_AddEnd ==
  /\ At("prune") /\ thr[1].pre = <<>>
  /\ LET lines == thr[1].out.lines
         r == thr[1].r
         r2 == stamp(r, last_hash(lines))
         c == CachingReceiptStore_add(r2)
     IN  IF last_hash_raises(lines)
           THEN /\ last' = CachedCall("add_raised", r.trace_id, <<>>, FALSE)
                /\ UNCHANGED <<file, cache, added>>
           ELSE /\ file' = Append(lines, json_dumps(r2))
                /\ chains' = c.chains
                /\ last_refresh' = c.last_refresh
                /\ total_cached' = c.total_cached
                /\ added' = Append(added, Returned(r, r2, TRUE))
                /\ last' = CachedCall("add", r.trace_id, <<r2>>, FALSE)
  /\ Return
  /\ UNCHANGED <<config, encoder, billing, now, docs, seen>>

\* chain: a live snapshot is returned at once, else the wrapped chain
\* starts its loop over the lines it read.
S_ChainBegin(trace_id) ==
  /\ At("idle")
  /\ IF CacheHit(trace_id)
       THEN /\ last' = CachedCall("chain", trace_id, chains[trace_id], FALSE)
            /\ UNCHANGED thr
       ELSE /\ Goto("scan", [trace_id |-> trace_id], read_lines, <<>>)
            /\ UNCHANGED last
  /\ UNCHANGED <<config, encoder, billing, now, file, docs, cache, added, seen>>

\* for ln in self._read_lines(): one iteration of ReceiptStore.chain
S_ScanLoop ==
  /\ At("scan") /\ thr[1].pre # <<>>
  /\ LET ln == Head(thr[1].pre)
         out == thr[1].out.lines
         obj == json_loads(ln)
     IN  Goto("scan", thr[1].r, Tail(thr[1].pre),
              IF IsDict(ln) /\ "trace_id" \in DOMAIN obj
                            /\ obj.trace_id = thr[1].r.trace_id
                THEN Append(out, ln) ELSE out)
  /\ UNCHANGED <<config, encoder, billing, now, file, docs, cache, added, last, seen>>

\* What chain returns: the collected records, sorted.
Collected == sort_by_hop_ts([i \in DOMAIN thr[1].out.lines |->
                           json_loads(thr[1].out.lines[i])])

\* Mutant of AfterEviction: the loop stays on the same item.
AfterEviction_same(ordered) == ordered

\* for trace_id, _ in ordered: the items after the one just visited.
AfterEviction(ordered) == Tail(ordered)

\* out.sort; the snapshot, its refresh time and the total are stored;
\* _enforce_size returns at once or starts its loop over `ordered`.
S_Install ==
  /\ At("scan") /\ thr[1].pre = <<>>
  /\ LET trace_id == thr[1].r.trace_id
         ch == [k \in CachedKeys \cup {trace_id} |->
                  IF k = trace_id THEN Collected ELSE chains[k]]
         lr == SetRefresh(last_refresh, trace_id, now)
         total == SumLen(ch, DOMAIN ch)
     IN  /\ chains' = ch
         /\ last_refresh' = lr
         /\ total_cached' = total
         /\ IF max_size <= 0 \/ total <= max_size
              THEN /\ last' = CachedCall("chain", trace_id, Collected, TRUE)
                   /\ Return
              ELSE /\ Goto("evict", thr[1].r, sort_by_refresh(lr), thr[1].out.lines)
                   /\ UNCHANGED last
  /\ UNCHANGED <<config, encoder, billing, now, file, docs, added, seen>>

\* one iteration of the loop of _enforce_size: it ends on the break or when
\* `ordered` is used up, and chain returns.
S_EvictLoop ==
  /\ At("evict") /\ thr[1].pre # <<>>
  /\ LET trace_id == Head(thr[1].pre)[1]
         removed == Len(Get(chains, trace_id, <<>>))
         rest == AfterEviction(thr[1].pre)
     IN  /\ chains' = PopChain(chains, trace_id)
         /\ last_refresh' = PopRefresh(last_refresh, trace_id)
         /\ total_cached' = total_cached - removed
         /\ IF total_cached - removed <= max_size \/ rest = <<>>
              THEN /\ last' = CachedCall("chain", thr[1].r.trace_id, Collected, TRUE)
                   /\ Return
              ELSE /\ Goto("evict", thr[1].r, rest, thr[1].out.lines)
                   /\ UNCHANGED last
  /\ UNCHANGED <<config, encoder, billing, now, file, docs, added, seen>>

\* What the caller's thread does next inside a call.
Continue ==
  S_PruneLoop \/ S_AddEnd \/ S_ScanLoop \/ S_Install \/ S_EvictLoop

NextSteps ==
  \/ \E r \in CacheInputs : S_AddBegin(r)
  \/ \E k \in TraceIds : S_ChainBegin(k)
  \/ S_PruneLoop
  \/ S_AddEnd
  \/ S_ScanLoop
  \/ S_Install
  \/ S_EvictLoop

SpecSteps == InitSteps /\ [][NextSteps]_vars

\* The calls are synchronous: the thread that entered one keeps running it.
SpecStepsFair == SpecSteps /\ WF_vars(Continue)

\* ------------------------------------------------ records that lack fields
\* The file store with retention on, given records that lack fields.
InitPartial ==
  /\ InitStores
  /\ env = [project |-> FALSE, constructs |-> FALSE, cache_flag |-> FALSE]
  /\ Loaded
  /\ max_age_seconds = ReceiptStore_init("1")
  /\ ttl_seconds = 0
  /\ max_size = 0

NextPartial ==
  \/ Tick
  \/ \E r \in PartialInputs : FileAdd(r)
  \/ \E k \in TraceIds : FileChain(k)

SpecPartial == InitPartial /\ [][NextPartial]_vars

\* ---------------------------------------------- a log from an earlier run
\* The file store started on the log an earlier run of the same store left:
\* nothing, or the records of one or two adds, the first stamped by its
\* caller with the latest time, the second with the earliest.
Earlier1 == [trace_id |-> "a", hop |-> 0, ts |-> Aware(MaxTime)]
Earlier2 == [trace_id |-> "a", hop |-> 1, ts |-> Aware(0)]

EarlierLogs ==
  LET one == ReceiptStore_add(Earlier1, <<>>).lines
      two == ReceiptStore_add(Earlier2, one).lines
  IN  {<<>>, one, two}

InitPrune ==
  /\ env = [project |-> FALSE, constructs |-> FALSE, cache_flag |-> FALSE]
  /\ Loaded
  /\ max_age_seconds = ReceiptStore_init("1")
  /\ ttl_seconds = 0
  /\ max_size = 0
  /\ now = 0
  /\ file \in EarlierLogs
  /\ docs = <<>>
  /\ chains = <<>>
  /\ last_refresh = <<>>
  /\ total_cached = 0
  /\ added = <<>>
  /\ last = NoCall
  /\ thr = [t \in Threads |-> Idle]
  /\ seen = NoRead
  /\ mappings = <<>>
  /\ cids = <<>>
  /\ BillingIdle

NextPrune ==
  \/ Tick
  \/ \E r \in Inputs : FileAdd(r)
  \/ \E k \in TraceIds : FileChain(k)

SpecPrune == InitPrune /\ [][NextPrune]_vars

\* ------------------------------------------------- replicas, remote store
\* Two replicas of the gateway, each with its own FirestoreReceiptStore on
\* the one collection. Between a replica's "latest" query and its
\* collection.add the other replica runs.
InitReplicas ==
  /\ InitStores
  /\ env = [project |-> TRUE, constructs |-> TRUE, cache_flag |-> FALSE]
  /\ Loaded
  /\ max_age_seconds = 0
  /\ ttl_seconds = 0
  /\ max_size = 0

\* add: prev_hash = self._latest_receipt_hash(), kept in the replica's `pre`.
F_Lookup(t, r) ==
  /\ thr[t].pc = "idle"
  /\ Len(added) + Cardinality(InFlight) < MaxThreadAdds
  /\ \E query_ok \in BOOLEAN :
       \E prev_hash \in latest_receipt_hash(query_ok) :
         thr' = [thr EXCEPT ![t] =
                   [pc |-> "insert", r |-> r,
                    out |-> [raised |-> ~query_ok, ret |-> <<>>, lines |-> <<>>],
                    pre |-> prev_hash]]
  /\ UNCHANGED <<config, encoder, billing, now, file, docs, cache, added, last,
                 seen>>

\* add, the rest: r2 is built and collection.add(r2) stores it; add returns.
F_Insert(t) ==
  /\ thr[t].pc = "insert"
  /\ \E pos \in 1..(Len(docs) + 1) :
       LET r2 == FirestoreReceiptStore_add(thr[t].r, thr[t].pre)
       IN  /\ docs' = InsertAt(docs, pos, r2)
           /\ added' = Append(added, Returned(thr[t].r, r2, ~thr[t].out.raised))
           /\ last' = Call("add", r2.trace_id, <<r2>>, FALSE)
  /\ thr' = [thr EXCEPT ![t] = Idle]
  /\ UNCHANGED <<config, encoder, billing, now, file, cache, seen>>

\* add, the rest, when collection.add raises: RuntimeError, nothing stored.
F_InsertRaises(t) ==
  /\ thr[t].pc = "insert"
  /\ last' = Call("add_raised", thr[t].r.trace_id, <<>>, FALSE)
  /\ thr' = [thr EXCEPT ![t] = Idle]
  /\ UNCHANGED <<config, encoder, billing, now, file, docs, cache, added, seen>>

NextReplicas ==
  \/ \E t \in Threads : \E r \in RemoteInputs : F_Lookup(t, r)
  \/ \E t \in Threads : F_Insert(t)
  \/ \E t \in Threads : F_InsertRaises(t)

SpecReplicas == InitReplicas /\ [][NextReplicas]_vars

\* ------------------------------------------- concurrent callers, decorator
\* Handlers running on worker threads against the one CachingReceiptStore
\* over the file store. The decorator holds no lock: between the wrapped
\* call and the update of the cache that follows it, another thread runs.
\* The wrapped calls themselves are taken one at a time here, retention and
\* the size cap are off, and the TTL is off or one second.
InitRace ==
  /\ InitStores
  /\ env = [project |-> FALSE, constructs |-> FALSE, cache_flag |-> TRUE]
  /\ Loaded
  /\ max_age_seconds = 0
  /\ ttl_seconds \in {0, 1}
  /\ max_size = 0

\* chain: the key is cached and not expired; the snapshot is returned.
R_ChainHit(t, trace_id) ==
  /\ thr[t].pc = "idle"
  /\ CacheHit(trace_id)
  /\ last' = CachedCall("chain", trace_id, chains[trace_id], FALSE)
  /\ UNCHANGED <<config, encoder, billing, now, file, docs, cache, added, thr, seen>>

\* chain on a miss: fresh = self.store.chain(trace_id), held by the thread.
R_ChainFetch(t, trace_id) ==
  /\ thr[t].pc = "idle"
  /\ ~CacheHit(trace_id)
  /\ thr' = [thr EXCEPT ![t] =
               [pc |-> "install", r |-> [trace_id |-> trace_id],
                out |-> [raised |-> FALSE,
                         ret |-> ReceiptStore_chain(trace_id, read_lines),
                         lines |-> <<>>],
                pre |-> <<>>]]
  /\ UNCHANGED <<config, encoder, billing, now, file, docs, cache, added, last, seen>>

\* chain on a miss, the rest: the snapshot and its refresh time are stored,
\* the total recomputed, the size enforced, and fresh returned.
R_ChainInstall(t) ==
  /\ thr[t].pc = "install"
  /\ LET c == CachingReceiptStore_refresh(thr[t].r.trace_id, thr[t].out.ret)
     IN  /\ chains' = c.chains
         /\ last_refresh' = c.last_refresh
         /\ total_cached' = c.total_cached
  /\ last' = CachedCall("chain", thr[t].r.trace_id, thr[t].out.ret, TRUE)
  /\ thr' = [thr EXCEPT ![t] = Idle]
  /\ UNCHANGED <<config, encoder, billing, now, file, docs, added, seen>>

\* add: added = self.store.add(r), held by the thread.
R_AddStore(t, r) ==
  /\ thr[t].pc = "idle"
  /\ Len(added) + Cardinality({u \in Threads : thr[u].pc = "invalidate"})
       < MaxRaceAdds
  /\ LET out == ReceiptStore_add(r, read_lines)
     IN  IF out.raised
           THEN /\ last' = CachedCall("add_raised", r.trace_id, <<>>, FALSE)
                /\ UNCHANGED <<file, thr>>
           ELSE /\ file' = out.lines
                /\ thr' = [thr EXCEPT ![t] = [pc |-> "invalidate", r |-> r,
                                                out |-> out, pre |-> <<>>]]
                /\ UNCHANGED last
  /\ UNCHANGED <<config, encoder, billing, now, docs, cache, added, seen>>

\* add, the rest: the key's snapshot and refresh time are popped when the
\* key is truthy, and the record returned.
R_AddInvalidate(t) ==
  /\ thr[t].pc = "invalidate"
  /\ LET c == CachingReceiptStore_add(thr[t].out.ret)
     IN  /\ chains' = c.chains
         /\ last_refresh' = c.last_refresh
         /\ total_cached' = c.total_cached
  /\ added' = Append(added, Returned(thr[t].r, thr[t].out.ret, TRUE))
  /\ last' = CachedCall("add", thr[t].out.ret.trace_id, <<thr[t].out.ret>>, FALSE)
  /\ thr' = [thr EXCEPT ![t] = Idle]
  /\ UNCHANGED <<config, encoder, billing, now, file, docs, seen>>

NextRace ==
  \/ Tick
  \/ \E t \in Threads : \E k \in TraceIds : R_ChainHit(t, k)
  \/ \E t \in Threads : \E k \in TraceIds : R_ChainFetch(t, k)
  \/ \E t \in Threads : R_ChainInstall(t)
  \/ \E t \in Threads : \E r \in CacheInputs : R_AddStore(t, r)
  \/ \E t \in Threads : R_AddInvalidate(t)

SpecRace == InitRace /\ [][NextRace]_vars

\* ------------------------------------------------- the gateway with billing
\* main.py's envelope and webhook handlers, one request at a time, over the
\* bare file store with retention off.
InitBilling ==
  /\ env = [project |-> FALSE, constructs |-> FALSE, cache_flag |-> FALSE]
  /\ Loaded
  /\ max_age_seconds = 0
  /\ ttl_seconds = 0
  /\ max_size = 0
  /\ now = 0
  /\ file = <<>>
  /\ docs = <<>>
  /\ chains = <<>>
  /\ last_refresh = <<>>
  /\ total_cached = 0
  /\ added = <<>>
  /\ last = NoCall
  /\ thr = [t \in Threads |-> Idle]
  /\ seen = NoRead
  /\ mappings = <<>>
  /\ cids = <<>>
  /\ billing_env \in BillingEnvs
  /\ month = 1
  /\ usage_cache = <<>>
  /\ usage_cache_month = "None"
  /\ subscription_cache = <<>>
  /\ processed_event_ids = <<>>
  /\ response = NoResponse
  /\ issued = [m \in DOMAIN MonthKeys |-> 0]
  /\ handled = {}

\* POST /v1/odin/envelope
Envelope(req) ==
  /\ Len(added) < MaxReceipts
  /\ LET h == handle_envelope(req)
     IN  /\ usage_cache' = h.usage
         /\ usage_cache_month' = h.mk
         /\ file' = IF h.stored THEN h.out.lines ELSE file
         /\ added' = IF h.stored
                       THEN Append(added, Returned(Receipt(req), h.out.ret, TRUE))
                       ELSE added
         /\ issued' = IF h.stored
                        THEN [issued EXCEPT ![month] = @ + 1]
                        ELSE issued
         /\ response' = [op |-> "envelope", n |-> 1 - response.n,
                         status |-> h.status, request |-> req,
                         event |-> NoEvent, idempotent |-> FALSE,
                         tier_changed |-> FALSE, tier |-> "",
                         project_id |-> ProjectId,
                         receipt |-> IF h.status = 200
                                       THEN <<h.out.ret>> ELSE <<>>,
                         posted |-> h.posted]
  /\ UNCHANGED <<config, encoder, billing_env, month, subscription_cache,
                 processed_event_ids, handled, now, docs, cache, last, thr,
                 seen>>

\* POST /v1/billing/webhook, the signature verified
Webhook(event) ==
  /\ LET h == handle_webhook_event(event)
     IN  /\ subscription_cache' = h.subs
         /\ processed_event_ids' = h.ids
         /\ response' = [op |-> "webhook", n |-> 1 - response.n,
                         status |-> 200, request |-> NoRequest,
                         event |-> event, idempotent |-> h.idempotent,
                         tier_changed |-> h.tier_changed, tier |-> h.tier,
                         project_id |-> h.project_id, receipt |-> <<>>,
                         posted |-> FALSE]
  /\ handled' = handled \cup ({event.id} \ {""})
  /\ UNCHANGED <<config, encoder, billing_env, month, usage_cache,
                 usage_cache_month, issued, now, file, docs, cache, added,
                 last, thr, seen>>

\* The calendar month changes between requests.
NextMonth ==
  /\ month < Len(MonthKeys)
  /\ month' = month + 1
  /\ UNCHANGED <<config, encoder, billing_env, usage_cache, usage_cache_month,
                 subscription_cache, processed_event_ids, response, issued,
                 handled, now, file, docs, cache, added, last, thr, seen>>

\* The events that subscribe the gateway's project.
Subscribing ==
  {e \in Events : /\ e.id = "evt_1" /\ e.project_id = ProjectId
                  /\ e.type = "checkout.session.completed"}

NextBilling ==
  \/ \E req \in Requests : Envelope(req)
  \/ \E event \in Subscribing : Webhook(event)
  \/ NextMonth

SpecBilling == InitBilling /\ [][NextBilling]_vars

\* The webhook handler alone, fed any sequence of events.
InitWebhook ==
  /\ InitBilling
  /\ billing_env.limit = 0

NextWebhook == \E event \in Events : Webhook(event)

SpecWebhook == InitWebhook /\ [][NextWebhook]_vars

\* ================================================================== claims
Rets == [i \in DOMAIN added |-> added[i].ret]

\* The parsed lines of the log, in file order.
Log == [i \in DOMAIN file |-> json_loads(file[i])]

Elems(s) == {s[i] : i \in DOMAIN s}

\* A record the next add's pruning keeps.
Fresh(rec) ==
  \/ max_age_seconds <= 0
  \/ ~rec.ts.aware
  \/ rec.ts.t >= now - max_age_seconds

\* C1 as stated: on the file-backed store, the K-th add returns a
\* prev_receipt_hash equal to the receipt_hash the (K-1)-th add returned,
\* and the first add returns a null prev_receipt_hash, for any sequence of
\* adds.
C1_ChainLinkage ==
  backend = "file" =>
    \A K \in DOMAIN added :
      Rets[K].prev_receipt_hash =
        (IF K = 1 THEN None ELSE Rets[K - 1].receipt_hash)

\* C1 amended: on the file-backed store the first add returns a null
\* prev_receipt_hash, and the K-th add returns the receipt_hash the (K-1)-th
\* add returned whenever the (K-1)-th record survives the K-th add's pruning
\* (always, when retention is disabled).
C1_LinkageToSurvivor ==
  [][ (backend = "file" /\ Len(added') = Len(added) + 1) =>
        LET new == added'[Len(added')].ret
        IN  /\ added = <<>> => new.prev_receipt_hash = None
            /\ (added # <<>> /\ Fresh(Rets[Len(added)])) =>
                 new.prev_receipt_hash = Rets[Len(added)].receipt_hash ]_vars

\* C1 witness: three adds under mixed keys with retention on, each linked
\* to the one before.
C1_Witness ==
  /\ backend = "file" /\ max_age_seconds > 0
  /\ Len(added) = 3
  /\ Rets[1].trace_id # Rets[2].trace_id
  /\ Rets[1].prev_receipt_hash = None
  /\ Rets[2].prev_receipt_hash = Rets[1].receipt_hash
  /\ Rets[3].prev_receipt_hash = Rets[2].receipt_hash

Quiescent == \A t \in Threads : thr[t].pc = "idle"

\* C2 as stated: whatever the interleaving of the steps of concurrent adds
\* on one file-backed store, once they have returned no added record is
\* missing from the log (retention off) and no two records of the log carry
\* the same prev_receipt_hash.
C2_AddsSerialized ==
  (Quiescent /\ max_age_seconds = 0) =>
    /\ \A i \in DOMAIN added : Rets[i] \in Elems(Log)
    /\ \A i, j \in DOMAIN Log :
         i # j => Log[i].prev_receipt_hash # Log[j].prev_receipt_hash

\* C3 as stated: a read of the log made while an add is rewriting it sees
\* the whole contents from before that rewrite or the whole contents after
\* it.
C3_NoTornRead ==
  \A w \in seen.during : seen.saw \in {w[1], w[2]}

\* What store.chain(trace_id) through the decorator returns in this state.
CachedChainResult(trace_id) ==
  IF CacheHit(trace_id) THEN chains[trace_id]
  ELSE ReceiptStore_chain(trace_id, read_lines)

\* C4 as stated: right after add(record) under key K returned from the
\* decorator, chain(K) contains the record just added.
C4_AddInvalidates ==
  (cache_enabled /\ last.op = "add") =>
    last.result[1] \in Elems(CachedChainResult(last.key))

\* C4 for the keys Python takes as true: the part of the claim the code
\* keeps.
C4_AddInvalidatesTruthy ==
  (cache_enabled /\ last.op = "add" /\ last.key # "") =>
    last.result[1] \in Elems(CachedChainResult(last.key))

\* C5 as stated, for the non-empty keys: what chain(K) returned through the
\* decorator is what the wrapped store's chain(K) returns at that moment.
C5_CacheCoherent ==
  (cache_enabled /\ last.op = "chain" /\ last.key # "") =>
    last.result = ReceiptStore_chain(last.key, read_lines)

\* A step that is the second of two consecutive chain calls with the same
\* key through the decorator (no add, nothing but time in between).
ChainAgain ==
  /\ cache_enabled
  /\ last.op = "chain" /\ last'.op = "chain"
  /\ last'.key = last.key /\ last'.repeat
  /\ added' = added /\ now' = now

\* The snapshot of trace_id is there and its TTL has run out.
TtlExpired(trace_id) ==
  /\ ttl_seconds > 0
  /\ trace_id \in RefreshKeys
  /\ now - RefreshOf(trace_id) > ttl_seconds

\* C6 as stated: two consecutive chain(key) calls with no intervening add
\* return equal results, and the second call invokes the wrapped store's
\* chain only if the TTL expired between the two calls.
C6_CacheTransparent ==
  [][ ChainAgain =>
        /\ last'.result = last.result
        /\ last'.fetched => TtlExpired(last.key) ]_vars

\* C6, the part the code keeps: the second call invokes the wrapped store
\* only if the TTL expired or the size cap evicted the snapshot, and returns
\* the first call's result when it does not invoke it.
C6_RefetchWhenDue ==
  [][ ChainAgain =>
        /\ last'.fetched =>
             (TtlExpired(last.key) \/ (max_size > 0 /\ last.key \notin CachedKeys))
        /\ ~last'.fetched => last'.result = last.result ]_vars

\* The records the store holds, in file order / document-id order.
Stored == IF backend = "file" THEN Log ELSE docs

Count(s, x) == Cardinality({i \in DOMAIN s : s[i] = x})

\* s is in ascending order of (hop, ts), ts compared as text.
Ascending(s) ==
  \A i, j \in DOMAIN s :
    i < j => \/ s[i].hop < s[j].hop
             \/ s[i].hop = s[j].hop /\ StrKey(s[i].ts) <= StrKey(s[j].ts)

\* C7: chain(key), when the store's read answers, returns exactly the
\* stored records whose correlation key equals key (each as many times as
\* it is stored), in ascending order of (hop, ts), whatever order they were
\* appended in.
C7_ChainSortedExact ==
  (~cache_enabled /\ last.op = "chain" /\ last.fetched) =>
    /\ Ascending(last.result)
    /\ \A x \in Elems(Stored) \cup Elems(last.result) :
         Count(last.result, x) =
           (IF x.trace_id = last.key THEN Count(Stored, x) ELSE 0)

\* C7 witness: a chain of two records returned hop 0 then hop 1, the hop-1
\* record stored first and carrying the earlier timestamp.
C7_Witness ==
  /\ ~cache_enabled /\ last.op = "chain" /\ last.fetched
  /\ Len(last.result) = 2
  /\ last.result[1].hop = 0 /\ last.result[2].hop = 1
  /\ StrKey(last.result[2].ts) < StrKey(last.result[1].ts)
  /\ \E i, j \in DOMAIN Stored :
       i < j /\ Stored[i] = last.result[2] /\ Stored[j] = last.result[1]

\* A step that is an add on the file store with retention on.
PruningAdd ==
  /\ backend = "file" /\ max_age_seconds > 0
  /\ Len(added') = Len(added) + 1

\* C8 as stated: with a retention window T > 0, after an add every record
\* of the log other than the one just appended has a timestamp at or after
\* the cutoff now - T (the older ones were removed by that add).
C8_PrunesOlderThanCutoff ==
  [][ PruningAdd =>
        \A i \in 1..(Len(Log') - 1) :
          Log'[i].ts.t >= now - max_age_seconds ]_vars

\* C8 for the timestamps that carry a UTC offset: the part the code keeps.
C8_PrunesAwareOlderThanCutoff ==
  [][ PruningAdd =>
        \A i \in 1..(Len(Log') - 1) :
          Log'[i].ts.aware => Log'[i].ts.t >= now - max_age_seconds ]_vars

\* C9 as stated: at most one stored receipt has a null prev_receipt_hash,
\* it is the first receipt the store ever received, and every later add
\* records a non-null prev_receipt_hash.
C9_NullPrevOnlyFirstEver ==
  /\ \A K \in DOMAIN added : K > 1 => Rets[K].prev_receipt_hash # None
  /\ \A i \in DOMAIN Stored :
       Stored[i].prev_receipt_hash = None => (added # <<>> /\ Stored[i] = Rets[1])
  /\ Cardinality({i \in DOMAIN Stored : Stored[i].prev_receipt_hash = None}) <= 1

\* C9 amended: an add on the file store records a null prev_receipt_hash
\* exactly when no entry survives its pruning step, and then at most one line
\* of the log has a null prev_receipt_hash, the first one; an add on the
\* remote store records null exactly when the collection is empty or its
\* "latest" lookup fails.
C9_NullPrevWithoutPredecessor ==
  [][ Len(added') = Len(added) + 1 =>
        LET e == added'[Len(added')]
        IN  /\ backend = "file" =>
                 /\ (e.ret.prev_receipt_hash = None) <=>
                      (\A i \in DOMAIN Log : ~Fresh(Log[i]))
                 /\ \A i \in DOMAIN Log' :
                      Log'[i].prev_receipt_hash = None => i = 1
            /\ backend = "firestore" =>
                 ((e.ret.prev_receipt_hash = None) <=>
                    (docs = <<>> \/ ~e.lookup_ok)) ]_vars

\* C9 witness: the second add on the file store found every entry pruned and
\* recorded null; the third linked to it.
C9_Witness ==
  /\ backend = "file" /\ Len(added) = 3 /\ Len(file) = 2
  /\ Rets[2].prev_receipt_hash = None
  /\ Rets[3].prev_receipt_hash = Rets[2].receipt_hash

\* The content address of a record's fields other than receipt_hash.
DerivedHash(rec) ==
  <<"sha256", << <<"hop", rec.hop>>,
                 <<"prev_receipt_hash", rec.prev_receipt_hash>>,
                 <<"trace_id", rec.trace_id>>,
                 <<"ts", rec.ts>> >> >>

\* C10: every record add returned or stored, on either backend, has
\* receipt_hash equal to the content address of its other fields with the
\* store-assigned prev_receipt_hash; the prev_receipt_hash is null or the
\* receipt_hash of an earlier add, and the other fields are the caller's,
\* whatever receipt_hash or prev_receipt_hash the caller's input carried.
C10_HashDerived ==
  /\ \A i \in DOMAIN added :
       LET rec == added[i].ret
           inp == added[i].input
       IN  /\ DOMAIN rec =
                {"trace_id", "hop", "ts", "prev_receipt_hash", "receipt_hash"}
           /\ rec.trace_id = inp.trace_id /\ rec.hop = inp.hop /\ rec.ts = inp.ts
           /\ rec.receipt_hash = DerivedHash(rec)
           /\ \/ rec.prev_receipt_hash = None
              \/ \E j \in 1..(i - 1) : rec.prev_receipt_hash = Rets[j].receipt_hash
  /\ \A i \in DOMAIN Stored :
       /\ Stored[i] \in Elems(Rets)
       /\ Stored[i].receipt_hash = DerivedHash(Stored[i])

\* C10 witness: the second add was given a receipt_hash and a
\* prev_receipt_hash by its caller, and its record is stored.
C10_Witness ==
  /\ Len(added) >= 2
  /\ "receipt_hash" \in DOMAIN added[2].input
  /\ added[2].input.prev_receipt_hash = Forged
  /\ Rets[2].prev_receipt_hash = Rets[1].receipt_hash
  /\ Rets[2] \in Elems(Stored)

\* C11 as stated: on the remote store, in a sequence of adds whose "most
\* recent" lookups all succeed, every add returns a prev_receipt_hash equal
\* to the receipt_hash of the record inserted immediately before it (null
\* for the first), whatever timestamps the callers supplied.
C11_RemoteLinkage ==
  (backend = "firestore" /\ \A i \in DOMAIN added : added[i].lookup_ok) =>
    \A K \in DOMAIN added :
      Rets[K].prev_receipt_hash =
        (IF K = 1 THEN None ELSE Rets[K - 1].receipt_hash)

\* C12 as stated: the same sequence of add and chain calls on the file
\* store (retention disabled) and on the remote store (no query failure)
\* gives, at every call, the same returned record and the same chain(K)
\* result on both.
C12_BackendsEquivalent ==
  (backend = "both" /\ last.op \in {"add", "chain"}) =>
    last.result[1] = last.result[2]

\* The receipts held in the cached snapshots, each with its place.
CachedReceipts ==
  UNION {{<<k, i>> : i \in DOMAIN chains[k]} : k \in DOMAIN chains}

\* C13: with max_size > 0, after every chain call on the decorator (and in
\* every other state) the number of receipts held across all the cached
\* snapshots is at most max_size.
C13_SizeCap ==
  (cache_enabled /\ max_size > 0) => Cardinality(CachedReceipts) <= max_size

\* C13 witness: a chain call fetched two receipts under a cap of one and the
\* eviction removed the snapshot it had just stored.
C13_Witness ==
  /\ cache_enabled /\ max_size = 1
  /\ last.op = "chain" /\ last.fetched
  /\ Len(last.result) = 2
  /\ last.key \notin CachedKeys
  /\ Cardinality(CachedReceipts) <= max_size

\* The snapshot of trace_id is live by the TTL rule.
Live(trace_id) ==
  ttl_seconds <= 0 \/ now - RefreshOf(trace_id) <= ttl_seconds

\* A step that is a chain call through the decorator.
CachedChainStep ==
  cache_enabled /\ last'.op = "chain" /\ added' = added /\ now' = now

\* C14: chain(K) serves a cached snapshot of K refreshed at t without
\* calling the wrapped store iff ttl_seconds <= 0 or now - t <= ttl_seconds;
\* and a snapshot leaves the cache only by an add under its key or by a
\* size-cap eviction, so with ttl_seconds <= 0 it is refetched only after
\* one of those.
C14_TtlRule ==
  [][ /\ \A k \in CachedKeys' :
           k \in RefreshKeys' /\ (CacheHit(k)' <=> Live(k)')
      /\ (CachedChainStep /\ last'.key \in CachedKeys) =>
           (last'.fetched <=> ~Live(last'.key))
      /\ \A k \in CachedKeys \ CachedKeys' :
           \/ last'.op = "add" /\ last'.key = k /\ Len(added') = Len(added) + 1
           \/ last'.op = "chain" /\ last'.fetched /\ max_size > 0 ]_vars

\* C14 witness: a snapshot whose age equals the TTL was served from the
\* cache.
C14_Witness ==
  /\ cache_enabled /\ ttl_seconds = 1
  /\ last.op = "chain" /\ ~last.fetched /\ last.result # <<>>
  /\ last.key \in RefreshKeys
  /\ now - RefreshOf(last.key) = ttl_seconds

\* C15: load_receipt_store returns the remote store when a project is
\* configured and its construction succeeds, the file-backed store when the
\* construction raises, and the file-backed store when no project is
\* configured; it never raises, and the store it returns takes add and chain.
C15_StoreSelection ==
  /\ backend = "unset" => ENABLED LoadStore
  /\ backend # "unset" =>
       /\ (env.project /\ env.constructs) => backend = "firestore"
       /\ (env.project /\ ~env.constructs) => backend = "file"
       /\ ~env.project => backend = "file"
       /\ last.op # "add_raised"

\* C15 witness: the constructor of the remote store raised, and the file
\* store returned in its place took an add and returned it from chain.
C15_Witness ==
  /\ env.project /\ ~env.constructs
  /\ backend = "file"
  /\ added # <<>>
  /\ last.op = "chain" /\ last.result = <<Rets[1]>>

\* C16 as stated: when the caching flag is on, the store load_receipt_store
\* returns is wrapped in the caching decorator, whichever store was selected
\* (the remote store, the fallback file store, the default file store).
C16_CacheWrapsSelected ==
  (backend # "unset" /\ env.cache_flag) => cache_enabled

\* C16 for the default file store: the part the code keeps.
C16_CacheWrapsDefault ==
  (backend # "unset" /\ env.cache_flag /\ ~env.project) => cache_enabled

\* The mapping an insertion-ordered dict denotes: its fields and their
\* values, at every level, without the order.
RECURSIVE Denotes(_)
Denotes(items) ==
  [k \in {items[i][1] : i \in DOMAIN items} |->
     LET v == items[CHOOSE i \in DOMAIN items : items[i][1] = k][2]
     IN  IF v.kind = "dict" THEN Denotes(v.items) ELSE v.atom]

\* C17: sha256_cid(canonical_json(record)) is the same for any two mappings
\* with the same field names and values, whatever the insertion order of
\* their fields at every nesting level (and so on repeated calls on one
\* mapping).
C17_HashStable ==
  cids # <<>> =>
    (Denotes(mappings[1]) = Denotes(mappings[2]) => cids[1] = cids[2])

\* C17 witness: two mappings with the same content, inserted in different
\* orders at the top level and inside the nested dict, got the same content
\* address, and a mapping with other content got another one.
C17_Witness ==
  /\ cids # <<>>
  /\ Denotes(mappings[1]) = Denotes(mappings[2])
  /\ mappings[1][1][1] # mappings[2][1][1]
  /\ \E i, j \in 1..3 :
       /\ mappings[1][i][1] = "policy" /\ mappings[2][j][1] = "policy"
       /\ mappings[1][i][2].items # mappings[2][j][2].items
  /\ cids[1] = cids[2]
  /\ \A m \in Mappings :
       Denotes(m) # Denotes(mappings[1]) =>
         sha256_cid(canonical_json_ordered(m)) # cids[1]

\* A step that is a chain call with the key of the call right before it,
\* itself a chain call: no add in between.
RereadStep ==
  /\ last.op = "chain" /\ last'.op = "chain"
  /\ last'.key = last.key
  /\ added' = added /\ now' = now

\* C18 as stated: on any store, chain(key) called twice with no add in
\* between returns identical results, and the call changes neither the log
\* file nor the remote collection.
C18_IdempotentRead ==
  [][ RereadStep =>
        /\ last'.result = last.result
        /\ file' = file /\ docs' = docs ]_vars

\* C18 on the file store without the decorator: the part the code keeps.
C18_IdempotentFileRead ==
  [][ (RereadStep /\ backend = "file" /\ ~cache_enabled) =>
        /\ last'.result = last.result
        /\ file' = file /\ docs' = docs ]_vars

\* C19 as stated: on the file store, for any log contents, add returns a
\* stored record and chain returns a list; no call ends in an exception.
C19_NoRawException ==
  backend = "file" => last.op \in {"none", "add", "chain"}

\* A line that holds a receipt.
ReceiptLine(ln) == ln # <<>> /\ ln[1][1] # "#"

\* The receipts of the log, in file order.
Receipts ==
  LET lines == SelectSeq(file, ReceiptLine)
  IN  [i \in DOMAIN lines |-> json_loads(lines[i])]

\* C20: chain(K) on a log with unparsable lines returns exactly the
\* well-formed records with key K, in ascending order of (hop, ts): what it
\* returns on the log without those lines, whatever their number and
\* position.
C20_SkipsMalformed ==
  (backend = "file" /\ last.op = "chain") =>
    /\ Ascending(last.result)
    /\ \A x \in Elems(Receipts) \cup Elems(last.result) :
         Count(last.result, x) =
           (IF x.trace_id = last.key THEN Count(Receipts, x) ELSE 0)
    /\ last.result = ReceiptStore_chain(last.key, SelectSeq(file, ReceiptLine))

\* C20 witness: chain returned, hop 0 first, the two records of a log that
\* holds an unparsable line between them.
C20_Witness ==
  /\ backend = "file" /\ last.op = "chain"
  /\ Len(last.result) = 2
  /\ last.result[1].hop = 0 /\ last.result[2].hop = 1
  /\ \E i, j, k \in DOMAIN file :
       /\ i < j /\ j < k
       /\ ReceiptLine(file[i])
       /\ file[j] \in {BadJson, NotObject}
       /\ ReceiptLine(file[k])

\* The lines of the log whose record the age pruning of an add at this
\* moment keeps, in file order.
Survivors == SelectSeq(file, LAMBDA ln : Fresh(json_loads(ln)))

\* C21: every add on the file store leaves the surviving lines as they were
\* and in their order, and appends exactly one new line, the returned
\* record, at the end; the only lines it removes are the ones older than the
\* retention cutoff, and no other operation changes the log.
C21_AppendOnly ==
  [][ backend = "file" =>
        IF Len(added') = Len(added) + 1
          THEN /\ Len(file') = Len(Survivors) + 1
               /\ SubSeq(file', 1, Len(Survivors)) = Survivors
               /\ json_loads(file'[Len(file')]) = added'[Len(added')].ret
          ELSE file' = file ]_vars

\* C21 witness: the third add pruned the second line, older than the
\* cutoff, from between the first line and the one it appended.
C21_Witness ==
  /\ backend = "file" /\ ~cache_enabled /\ max_age_seconds > 0
  /\ Len(added) = 3
  /\ Log = <<Rets[1], Rets[3]>>
  /\ Rets[2].prev_receipt_hash = Rets[1].receipt_hash

\* C22: on the remote store, an add whose "most recent" lookup raised still
\* inserts the record, and the record it returns has a null
\* prev_receipt_hash and the receipt_hash derived from its fields.
C22_AddSurvivesLookupFailure ==
  backend = "firestore" =>
    \A i \in DOMAIN added :
      ~added[i].lookup_ok =>
        /\ Rets[i].prev_receipt_hash = None
        /\ Rets[i].receipt_hash = DerivedHash(Rets[i])
        /\ Rets[i] \in Elems(docs)

\* C22 witness: the second add's lookup raised while the collection held
\* the first record; it was inserted with a null prev_receipt_hash.
C22_Witness ==
  /\ backend = "firestore" /\ Len(added) = 2
  /\ added[1].lookup_ok /\ ~added[2].lookup_ok
  /\ Rets[2].prev_receipt_hash = None
  /\ Rets[1] \in Elems(docs) /\ Rets[2] \in Elems(docs)

\* The stored documents whose trace_id is the key.
DocsOf(key) ==
  {i \in DOMAIN docs : "trace_id" \in DOMAIN docs[i] /\ docs[i].trace_id = key}

\* C23: on the remote store, a chain whose by-key query raised returns the
\* empty list to the caller.
C23_ChainSurvivesQueryFailure ==
  (backend = "firestore" /\ last.op = "chain" /\ ~last.fetched) =>
    last.result = <<>>

\* C23 witness: the query of chain(K) raised while the collection held a
\* record under K, and the call returned [].
C23_Witness ==
  /\ backend = "firestore" /\ last.op = "chain" /\ ~last.fetched
  /\ DocsOf(last.key) # {}
  /\ last.result = <<>>

\* C24 as stated: whenever the remote chain query fails and the empty list
\* is returned, the call emits a degraded-mode signal an operator can
\* observe.
C24_DegradedSignal ==
  (backend = "firestore" /\ last.op = "chain" /\ ~last.fetched) =>
    last.signals # {}

\* C25: with retention disabled (the window zero, negative or unset), an
\* add on the file store removes no line: the log it leaves is the log it
\* found followed by one new line, whatever the timestamps stored.
C25_NoPruningWhenDisabled ==
  [][ (backend = "file" /\ max_age_seconds <= 0
         /\ Len(added') = Len(added) + 1) =>
        /\ Len(file') = Len(file) + 1
        /\ SubSeq(file', 1, Len(file)) = file ]_vars

\* C25 witness: a negative window, the clock at its end, and a log of three
\* lines whose first two carry the oldest timestamp, one aware, one naive.
C25_Witness ==
  /\ backend = "file" /\ ~cache_enabled /\ max_age_seconds < 0
  /\ now = MaxTime
  /\ Len(added) = 3 /\ Log = Rets
  /\ Rets[1].ts = Aware(0) /\ Rets[2].ts = Naive(0)

\* C26: while the log file does not exist, every chain(K) returns [] and no
\* call raises; the first add then succeeds, returns a record with a null
\* prev_receipt_hash, and creates the log with that record as its only line.
C26_FirstRun ==
  [][ /\ (file' = NoFile /\ last' # last) =>
           /\ last'.op = "chain"
           /\ last'.result = <<>>
      /\ (file = NoFile /\ file' # file) =>
           /\ last'.op = "add"
           /\ last'.result[1].prev_receipt_hash = None
           /\ Len(file') = 1
           /\ json_loads(file'[1]) = last'.result[1] ]_vars

\* C26 witness: chain was called under the key "a" after the clock moved,
\* with no log file, and returned [].
C26_Witness ==
  /\ backend = "file" /\ file = NoFile
  /\ now > 0
  /\ last.op = "chain" /\ last.key = "a" /\ last.result = <<>>

\* C30: the prev_receipt_hash an add on the file store gives the new record
\* is the receipt_hash of the last line that survives the pruning of that
\* same add, and null when no line survives.
C30_LinksAfterPruning ==
  [][ (backend = "file" /\ Len(added') = Len(added) + 1) =>
        added'[Len(added')].ret.prev_receipt_hash =
          (IF Survivors = <<>>
             THEN None
             ELSE json_loads(Survivors[Len(Survivors)]).receipt_hash) ]_vars

\* C30 witness: the third add pruned the line of the second and linked to
\* the first record, the last one left, not to the record added before it.
C30_Witness ==
  /\ backend = "file" /\ ~cache_enabled /\ Len(added) = 3 /\ Len(file) = 2
  /\ Rets[3].prev_receipt_hash = Rets[1].receipt_hash
  /\ Rets[3].prev_receipt_hash # Rets[2].receipt_hash
  /\ Log[2] = Rets[3]

\* C29 as stated: when chain(K) and the add of a record under K run
\* interleaved on the caching decorator, then once both have returned the
\* next chain(K) contains the added record (retention off, K a key the
\* decorator invalidates).
C29_ConcurrentAddVisible ==
  (backend = "file" /\ cache_enabled /\ Quiescent /\ max_age_seconds = 0) =>
    \A i \in DOMAIN added :
      Truthy(Rets[i], "trace_id") =>
        Rets[i] \in Elems(CachedChainResult(Rets[i].trace_id))

\* current_usage(project_id) of the gateway's project, as a call would
\* return it in this state.
CurrentUsage ==
  IF usage_cache_month = current_month_key
    THEN Get(usage_cache, ProjectId, 0) ELSE 0

\* A step that is one envelope request.
EnvelopeStep == response'.op = "envelope" /\ response'.n # response.n

\* C27: for the project on the free tier with monthly limit L, once L
\* receipts have been appended in the current month every further envelope
\* request is rejected, with 402 when it passes normalization and
\* authentication, appends no receipt and records no usage; and the receipts
\* appended in one month never exceed L while the project is on the free
\* tier (requests handled one at a time).
C27_FreeTierQuota ==
  [][ /\ ( /\ EnvelopeStep
           /\ configured_tier(subscription_cache, ProjectId) = "free"
           /\ issued[month] >= free_tier_limit ) =>
             /\ response'.status \in {400, 401, 402}
             /\ (response'.request.normalizes /\ response'.request.auth = "ok")
                  => response'.status = 402
             /\ file' = file /\ added' = added /\ issued' = issued
             /\ CurrentUsage' = CurrentUsage
      /\ configured_tier(subscription_cache', ProjectId) = "free" =>
           \A m \in DOMAIN issued' : issued'[m] <= free_tier_limit ]_vars

\* C27 witness: limit 1, one receipt appended in each of two months, and
\* the last request, well-formed and authenticated, answered 402.
C27_Witness ==
  /\ billing_env.limit = 1
  /\ configured_tier(subscription_cache, ProjectId) = "free"
  /\ month = 2 /\ issued = <<1, 1>> /\ Len(file) = 2 /\ CurrentUsage = 1
  /\ response.op = "envelope" /\ response.status = 402
  /\ response.request.normalizes /\ response.request.auth = "ok"

\* A step that is one webhook event handled.
WebhookStep == response'.op = "webhook" /\ response'.n # response.n

\* C28: handling an event whose id is in the in-memory window of processed
\* ids returns idempotent = true and leaves the subscription cache
\* unchanged; handling an event whose id was never handled before returns
\* idempotent = false.
C28_WebhookIdempotent ==
  [][ WebhookStep =>
        LET e == response'.event
        IN  /\ (e.id # "" /\ InWindow(processed_event_ids, e.id)) =>
                 /\ response'.idempotent
                 /\ subscription_cache' = subscription_cache
            /\ (e.id # "" /\ e.id \notin handled) => ~response'.idempotent ]_vars

\* C28 witness: with the window full, a checkout event that names the
\* project and a tier came under an id of the window; it was answered
\* idempotent and the project has no subscription.
C28_Witness ==
  /\ response.op = "webhook" /\ response.idempotent
  /\ response.event.type = "checkout.session.completed"
  /\ response.event.project_id = ProjectId /\ response.event.tier = "pro"
  /\ InWindow(processed_event_ids, response.event.id)
  /\ Len(processed_event_ids) = IdWindow
  /\ ProjectId \notin DOMAIN subscription_cache

\* C31 as stated: on the file store with retention enabled and adds made one
\* at a time, after any add every line but the first has a
\* prev_receipt_hash equal to the receipt_hash of the line right before it,
\* whatever timestamps the callers supplied.
C31_AdjacentLinkage ==
  (backend = "file" /\ max_age_seconds > 0 /\ added # <<>>) =>
    \A i \in DOMAIN Log :
      i > 1 => Log[i].prev_receipt_hash = Log[i - 1].receipt_hash

\* C32: with two replicas adding to the one remote collection, a replica's
\* insert is neither refused nor re-linked on account of the other's: it
\* adds one document, the record stamped with the hash its own lookup
\* returned, so replicas whose lookups both ran before either insert store
\* records with the same prev_receipt_hash.
C32_RemoteFork ==
  [][ \A t \in Threads :
        (thr[t].pc = "insert" /\ Len(added') = Len(added) + 1
           /\ thr'[t].pc = "idle") =>
          LET new == added'[Len(added')].ret
          IN  /\ Len(docs') = Len(docs) + 1
              /\ new \in Elems(docs')
              /\ new.prev_receipt_hash = thr[t].pre
              /\ \A u \in Threads \ {t} :
                   (thr[u].pc = "insert" /\ thr[u].pre = thr[t].pre) =>
                     (thr'[u].pc = "insert"
                        /\ thr'[u].pre = new.prev_receipt_hash) ]_vars

\* C32 witness: both replicas' lookups succeeded on the empty collection
\* before either insert; both inserts succeeded, and the collection holds
\* two different records with the same (null) prev_receipt_hash.
C32_Witness ==
  /\ backend = "firestore" /\ Quiescent /\ Len(added) = 2 /\ Len(docs) = 2
  /\ added[1].lookup_ok /\ added[2].lookup_ok
  /\ Rets[1].prev_receipt_hash = Rets[2].prev_receipt_hash
  /\ Rets[1].receipt_hash # Rets[2].receipt_hash
  /\ Rets[1] \in Elems(docs) /\ Rets[2] \in Elems(docs)

\* A step that is a chain call through the decorator that fetched from the
\* wrapped store and stored the snapshot.
RefreshStep == CachedChainStep /\ last'.fetched

\* The cache such a step holds after storing the snapshot and before
\* enforcing the size: its keys, snapshots, refresh times and places in
\* _last_refresh.
KeysBefore == CachedKeys \cup {last'.key}
SnapshotBefore(k) == IF k = last'.key THEN last'.result ELSE chains[k]
TimeBefore(k) == IF k = last'.key THEN now ELSE RefreshOf(k)
PlaceBefore(k) ==
  IF k \in RefreshKeys
    THEN CHOOSE i \in DOMAIN last_refresh : last_refresh[i][1] = k
    ELSE Len(last_refresh) + 1
TotalBefore == SumLen([k \in KeysBefore |-> SnapshotBefore(k)], KeysBefore)
Evicted == KeysBefore \ CachedKeys'

\* Snapshots are evicted whole, only over the cap, and until the total is
\* at or under the cap and no further: the last one evicted was needed.
EvictsWholeUntilUnderCap ==
  /\ \A k \in CachedKeys' : k \in KeysBefore /\ chains'[k] = SnapshotBefore(k)
  /\ (max_size <= 0 \/ TotalBefore <= max_size) => Evicted = {}
  /\ (max_size > 0 /\ TotalBefore > max_size) =>
       /\ SumLen(chains', CachedKeys') <= max_size
       /\ \E e \in Evicted :
            /\ \A f \in Evicted : TimeBefore(f) <= TimeBefore(e)
            /\ SumLen(chains', CachedKeys') + Len(SnapshotBefore(e)) > max_size

CachedAddStep(r) ==
  /\ cache_enabled /\ now' = now
  /\ last'.op \in {"add", "add_raised"} /\ last'.key = r.trace_id

\* C34: add through the decorator runs the wrapped add once and returns its
\* result; when the wrapped add raises, the call raises and snapshots and
\* refresh times stay as they were; when it succeeds, the snapshot of the
\* record's key is gone and every other snapshot and refresh time is as
\* before.
C34_CachedAddFrame ==
  [][ \A r \in CacheInputs : CachedAddStep(r) =>
        LET out == ReceiptStore_add(r, read_lines)
        IN  IF out.raised
              THEN /\ last'.op = "add_raised"
                   /\ UNCHANGED <<file, added, chains, last_refresh>>
              ELSE /\ last'.op = "add" /\ last'.result = <<out.ret>>
                   /\ file' = out.lines
                   /\ Len(added') = Len(added) + 1
                   /\ CachedKeys' = CachedKeys \ {r.trace_id}
                   /\ RefreshKeys' = RefreshKeys \ {r.trace_id}
                   /\ \A k \in CachedKeys' :
                        chains'[k] = chains[k] /\ RefreshOf(k)' = RefreshOf(k)
    ]_vars

\* The keys chain sorts by, with the defaults of a record that lacks them:
\* hop 0, and the empty string, which sorts before every other str.
HopOrZero(x) == IF "hop" \in DOMAIN x THEN x.hop ELSE 0
TsBefore(x, y) ==
  /\ "ts" \in DOMAIN y
  /\ "ts" \in DOMAIN x => StrKey(x.ts) < StrKey(y.ts)
SortsBefore(x, y) ==
  \/ HopOrZero(x) < HopOrZero(y)
  \/ HopOrZero(x) = HopOrZero(y) /\ TsBefore(x, y)

\* The line holds a record whose ts is missing or is no timestamp.
Undated(ln) ==
  "ts" \notin DOMAIN json_loads(ln) \/ json_loads(ln).ts = NotIso

\* The records of the log under a key, in file order.
Under(key) ==
  SelectSeq([i \in DOMAIN file |-> json_loads(file[i])],
            LAMBDA obj : "trace_id" \in DOMAIN obj /\ obj.trace_id = key)

\* C35: on records that lack trace_id, hop or ts no add and no chain
\* raises: add appends the record with the fields it was given, pruning
\* keeps every line whose ts is missing or unreadable, and chain returns the
\* records of the key ordered by hop, 0 when missing, then ts, the empty
\* string when missing.
C35_PartialRecords ==
  [][ /\ last'.op # "add_raised"
      /\ (last'.op = "add" /\ added' # added) =>
           LET r == added'[Len(added')]
           IN  /\ file'[Len(file')] = json_dumps(r.ret)
               /\ DOMAIN r.ret = DOMAIN r.input \cup {"prev_receipt_hash", "receipt_hash"}
               /\ \A k \in DOMAIN r.input : r.ret[k] = r.input[k]
               /\ \A i \in DOMAIN file : Undated(file[i]) =>
                    Cardinality({j \in DOMAIN file : file[j] = file[i]})
                      <= Cardinality({j \in DOMAIN file' : file'[j] = file[i]})
      /\ last'.op = "chain" =>
           /\ Len(last'.result) = Len(Under(last'.key))
           /\ \A i \in DOMAIN Under(last'.key) :
                \E j \in DOMAIN last'.result : last'.result[j] = Under(last'.key)[i]
           /\ \A i, j \in DOMAIN last'.result :
                i < j => ~SortsBefore(last'.result[j], last'.result[i])
    ]_vars

\* C35 witness: three adds, the last one pruning a dated line; the line
\* without ts that stood before it is still first in the log, and chain("a")
\* returns the record without hop first and the record without ts second.
C35_Witness ==
  /\ Len(added) = 3 /\ Len(file) = 2
  /\ "ts" \notin DOMAIN json_loads(file[1])
  /\ last.op = "chain" /\ last.key = "a" /\ Len(last.result) = 2
  /\ "hop" \notin DOMAIN last.result[1] /\ last.result[1].ts = NotIso
  /\ "ts" \notin DOMAIN last.result[2] /\ last.result[2].hop = 1

\* C36: a value of the retention variable that int() rejects never makes
\* the constructor raise: the store comes out with max_age_seconds 0,
\* whatever the argument; a value that int() accepts becomes
\* max_age_seconds, whatever the argument.
C36_RetentionConfig ==
  [][ (last'.op \in {"init", "init_raised"} /\ last' # last) =>
        LET env_val == last'.key
        IN  /\ last'.op = "init"
            /\ env_val \in {"1h", " "} => max_age_seconds' = 0
            /\ env_val = "-1" => max_age_seconds' = -1
            /\ env_val = "0" => max_age_seconds' = 0
            /\ env_val = "1" => max_age_seconds' = 1 ]_vars

\* C36 witness: the store was constructed with the argument 2 while the
\* variable held "1h", and has retention 0.
C36_Witness ==
  /\ last.op = "init" /\ last.key = "1h" /\ last.result = <<Arg(2)>>
  /\ max_age_seconds = 0

\* The usage the quota check reads for the project on the request.
QuotaPasses ==
  \/ configured_tier(subscription_cache, ProjectId) # "free"
  \/ CurrentUsage < free_tier_limit

\* C37: an envelope request answered 401 (API key or MAC) or 402 (quota)
\* appends no receipt and records no usage, and a receipt is appended only
\* on a request that passed both checks.
C37_ChecksBeforeAppend ==
  [][ EnvelopeStep =>
        /\ response'.status \in {401, 402} =>
             /\ file' = file /\ added' = added /\ issued' = issued
             /\ CurrentUsage' = CurrentUsage
        /\ (response'.request.normalizes /\ response'.request.auth # "ok") =>
             response'.status = 401
        /\ (file' # file \/ CurrentUsage' # CurrentUsage) =>
             /\ response'.request.auth = "ok"
             /\ QuotaPasses ]_vars

\* C37 witness: with one receipt in the log and quota left, a well-formed
\* request that fails the key check was answered 401; the log still holds
\* one receipt and the usage is one.
C37_Witness ==
  /\ response.op = "envelope" /\ response.status = 401
  /\ response.request.normalizes /\ response.request.forward = "blocked"
  /\ QuotaPasses
  /\ Len(file) = 1 /\ Len(added) = 1 /\ CurrentUsage = 1

\* C38: a request that passes the key and quota checks and names a
\* forward_url the policy does not allow is answered 403 and nothing is
\* POSTed, and by then its receipt, with policy.allowed = false, is the last
\* line of the log and its usage is recorded; nothing is ever POSTed to a
\* blocked forward_url.
C38_BlockedForward ==
  [][ EnvelopeStep =>
        /\ ( /\ response'.request.normalizes /\ response'.request.auth = "ok"
             /\ response'.request.forward = "blocked"
             /\ QuotaPasses ) => response'.status = 403
        /\ response'.status = 403 =>
             /\ ~response'.posted
             /\ Len(file') = Len(file) + 1
             /\ json_loads(file'[Len(file')]).policy.allowed = FALSE
             /\ \A i \in DOMAIN file : file'[i] = file[i]
             /\ CurrentUsage' = CurrentUsage + 1
        /\ response'.posted =>
             response'.request.forward \in {"answers", "fails"} ]_vars

\* C38 witness: the first request was answered 403; the log holds its
\* receipt with policy.allowed = false, one unit of usage is recorded and
\* nothing was POSTed.
C38_Witness ==
  /\ response.op = "envelope" /\ response.status = 403 /\ ~response.posted
  /\ Len(file) = 1 /\ json_loads(file[1]).policy.allowed = FALSE
  /\ CurrentUsage = 1 /\ issued[month] = 1

\* C39: every add and every chain, on the file store and through the
\* decorator, the eviction loop included, returns or raises to its caller:
\* a call that was entered always comes to its end; and the log and the
\* cache change only in the steps of a call, never between calls.
C39_CallsTerminate ==
  /\ (thr[1].pc # "idle") ~> (thr[1].pc = "idle")
  /\ [][ (file' # file \/ chains' # chains \/ last_refresh' # last_refresh
            \/ total_cached' # total_cached) => thr[1].pc # "idle" ]_vars

\* C39 witness: the eviction loop has dropped the oldest snapshot, is still
\* over the cap and goes on to the next one.
C39_Witness ==
  /\ thr[1].pc = "evict" /\ Len(thr[1].pre) = 1
  /\ total_cached > max_size /\ CachedKeys = {"a"}

\* C40 as stated: after every add and chain through the decorator the keys
\* with a snapshot are the keys with a refresh time, and right after every
\* chain call the tracked total is the sum of the lengths of the snapshots.
C40_Bookkeeping ==
  cache_enabled =>
    /\ CachedKeys = RefreshKeys
    /\ last.op = "chain" => total_cached = SumLen(chains, CachedKeys)

\* C40 amended: the same, the total being the sum right after every chain
\* call that fetched from the wrapped store; a chain call served from the
\* cache leaves the total as it was, above the sum once an add has removed
\* a snapshot.
C40_BookkeepingOnFetch ==
  cache_enabled =>
    /\ CachedKeys = RefreshKeys
    /\ (last.op = "chain" /\ last.fetched) =>
         total_cached = SumLen(chains, CachedKeys)
    /\ total_cached >= SumLen(chains, CachedKeys)

\* C40 witness: chain("") was served from the cache after an add removed
\* the snapshot of "a"; the total still counts the removed snapshot.
C40_Witness ==
  /\ cache_enabled /\ last.op = "chain" /\ ~last.fetched /\ last.key = ""
  /\ CachedKeys = {""} /\ RefreshKeys = {""}
  /\ total_cached = 1 /\ SumLen(chains, CachedKeys) = 0

====
